---- MODULE Spec2Model ----
(***************************************************************************)
(* pi-gate: a DNS sinkhole.  The model follows pi_gate/dns_server_async.py *)
(* (the asyncio UDP server, its startup, its per-query task and the        *)
(* upstream exchange), pi_gate/database.py (the audit store),              *)
(* pi_gate/blm_filter.py (the Bloom-filter index, its normalizer and its   *)
(* snapshot file), and the two launchers with their PID file:              *)
(* pi_gate/app.py (start, stop) and pi_gate/main.py (start_services, the   *)
(* daemonized start_dns and start_dash, stop_services).                    *)
(*                                                                         *)
(* Strings are sequences of one-character strings, so that lower(),        *)
(* rstrip('.') and endswith() are computed and not assumed.  A datagram is *)
(* a record: wire = "dns" for bytes that DNSRecord.parse decodes, "junk"   *)
(* for bytes it rejects, "raw" for the opaque bytes an upstream sends.     *)
(***************************************************************************)
EXTENDS Integers, Sequences, FiniteSets, TLC

\* ------------------------------------------------------------------ bounds

\* Number of datagrams the listening socket delivers in one run.
MaxQueries == 2

\* Longest query name drawn for the is_blocked specification.
MaxNameLen == 4

\* Longest blocklist entry drawn for the is_blocked specification.
MaxEntryLen == 2

\* Most rows the audit store holds in the database specification.
MaxRows == 2

\* Most lines of a blocklist download.
MaxLines == 3

\* Most pieces an input of normalize_url is put together from.
MaxPieces == 3

\* Slices of the bit array of the index, and bits in each slice.
NumSlices == 2

BitsPerSlice == 3

\* Most logging.error lines of database.py that are counted.
MaxLogLines == 2

\* ------------------------------------------------------------- the state

VARIABLES
    BLOCKED_DOMAINS,  \* dns_server_async.BLOCKED_DOMAINS, the global set
    listening,        \* the server's datagram transport is open
    ntasks,           \* handle_query tasks created so far
    pc,               \* where each handle_query task stands
    data,             \* the datagram each task was created with
    addr,             \* the client address each task was created with
    on_response,      \* DnsClientProtocol.on_response of each task's exchange
    transport,        \* each task's upstream transport: none, open, closed
    up_sent,          \* datagrams each upstream transport sent to UPSTREAM_DNS
    sent,             \* datagrams sent on the listening transport, in order
    first_event,      \* first upstream event of each exchange (history)
    late_datagram,    \* an upstream datagram came after the future was done
    escaped,          \* tasks that ended with an exception
    dns_requests,     \* rows of table dns_requests, in insertion order
    table_exists,     \* CREATE TABLE has been committed
    lq_outcome,       \* how the last log_query call ended: returned, raised
    db_last,          \* the last call of database.py and what it returned
    error_log,        \* number of logging.error lines written by database.py
    query_name,       \* argument of the is_blocked call under test
    is_blocked_out,   \* its result, "none" before the call
    main_pc,          \* the statement of start_dns_server being executed
    main_end,         \* how the process stands: running, stopped, or raised
    results,          \* what each load_blocklist coroutine returned
    expected_entries, \* BlmFilter.expected_entries
    bloom_filter,     \* BlmFilter.bloom_filter
    snapshot,         \* the file BLOOM_FILTER_PATH
    saved,            \* the index the last successful pickle.dump wrote (history)
    inserted,         \* names the last load_urls_from_url added (history)
    blm_out,          \* the last BlmFilter call and what it returned
    norm_calls,       \* an input of normalize_url and the successive results
    pid_file,         \* the file PID_FILE: whether it exists, and its lines
    running,          \* PIDs of the service processes that are alive
    launch_out,       \* the last launcher command and how it ended
    parent_pc,        \* where start_services of main.py stands
    daemon,           \* the daemonized process of each service of main.py
    pid_lock          \* the holder of the flock on PID_FILE

serverVars ==
    << listening, ntasks, pc, data, addr, on_response, transport, up_sent,
       sent, first_event, late_datagram, escaped >>

dbVars == << dns_requests, table_exists, lq_outcome, db_last, error_log >>

pureVars == << query_name, is_blocked_out >>

mainVars == << main_pc, main_end, results >>

blmVars ==
    << expected_entries, bloom_filter, snapshot, saved, inserted, blm_out,
       norm_calls >>

launchVars == << pid_file, running, launch_out, parent_pc, daemon, pid_lock >>

vars ==
    << BLOCKED_DOMAINS, serverVars, dbVars, pureVars, mainVars, blmVars,
       launchVars >>

\* ---------------------------------------------------------------- strings

\* str.lower() on one character.
LowerChar(c) ==
    CASE c = "A" -> "a"
      [] c = "B" -> "b"
      [] c = "D" -> "d"
      [] c = "S" -> "s"
      [] OTHER -> c

\* str.lower()
Lower(s) == [i \in 1..Len(s) |-> LowerChar(s[i])]

\* str.rstrip('.'): every trailing dot goes.
RECURSIVE RStripDots(_)
RStripDots(s) ==
    IF Len(s) > 0 /\ s[Len(s)] = "."
    THEN RStripDots(SubSeq(s, 1, Len(s) - 1))
    ELSE s

\* str.endswith(t)
EndsWith(s, t) ==
    /\ Len(t) <= Len(s)
    /\ SubSeq(s, Len(s) - Len(t) + 1, Len(s)) = t

\* Characters that str.strip() and str.split() treat as whitespace.
IsSpace(c) == c \in {" ", "\t"}

\* Characters that \d matches.
IsDigit(c) == c \in {"0", "1"}

\* ASCII letters, after lower().
IsAlpha(c) == c \in {"a", "b", "h", "w", "x"}

\* urllib.parse.scheme_chars
IsSchemeChar(c) == IsAlpha(c) \/ IsDigit(c) \/ c \in {"+", "-", "."}

\* str.lstrip()
RECURSIVE LStrip(_)
LStrip(s) ==
    IF Len(s) > 0 /\ IsSpace(s[1]) THEN LStrip(Tail(s)) ELSE s

\* str.rstrip()
RECURSIVE RStrip(_)
RStrip(s) ==
    IF Len(s) > 0 /\ IsSpace(s[Len(s)])
    THEN RStrip(SubSeq(s, 1, Len(s) - 1))
    ELSE s

\* str.strip()
Strip(s) == RStrip(LStrip(s))

\* str.rstrip('/')
RECURSIVE RStripSlashes(_)
RStripSlashes(s) ==
    IF Len(s) > 0 /\ s[Len(s)] = "/"
    THEN RStripSlashes(SubSeq(s, 1, Len(s) - 1))
    ELSE s

\* str.startswith(t)
StartsWith(s, t) == Len(t) <= Len(s) /\ SubSeq(s, 1, Len(t)) = t

\* The least element of a non-empty set of numbers.
Min(S) == CHOOSE i \in S : \A j \in S : i <= j

\* str.find(t), counted from 1; 0 when t does not occur.
Find(s, t) ==
    LET hits == { i \in 1..(Len(s) - Len(t) + 1) : SubSeq(s, i, i + Len(t) - 1) = t }
    IN  IF hits = {} THEN 0 ELSE Min(hits)

\* str.split(): the tokens between runs of whitespace.  A token starts at a
\* character that is not whitespace and follows whitespace or nothing, and
\* ends before the next whitespace.
Split(s) ==
    LET starts == { i \in 1..Len(s) : ~IsSpace(s[i]) /\ (i = 1 \/ IsSpace(s[i - 1])) }
    IN  [k \in 1..Cardinality(starts) |->
            LET b == CHOOSE i \in starts : Cardinality({ j \in starts : j < i }) = k - 1
            IN  SubSeq(s, b, Min({ j \in (b + 1)..(Len(s) + 1) :
                                      j = Len(s) + 1 \/ IsSpace(s[j]) }) - 1)]

\* The match test of one blocklist entry, line 85.
MatchesMutExactOnly(qn, blocked) == qn = blocked

Matches(qn, blocked) ==
    \/ qn = blocked
    \/ EndsWith(qn, <<".">> \o blocked)

\* is_blocked(query_name) over the global BLOCKED_DOMAINS.
is_blockedMutNoLower(name) ==
    LET qn == RStripDots(name)
    IN  \E blocked \in BLOCKED_DOMAINS : Matches(qn, blocked)

is_blocked(name) ==
    LET qn == Lower(RStripDots(name))
    IN  \E blocked \in BLOCKED_DOMAINS : Matches(qn, blocked)

\* str(DNSLabel): the labels joined by dots, with the root's trailing dot.
LabelStr(qname) == qname \o <<".">>

\* ------------------------------------------------------------ DNS messages

example_com == <<"e", "x", "a", "m", "p", "l", "e", ".", "c", "o", "m">>

ads_example_com == <<"a", "d", "s", ".">> \o example_com

a_ads_example_com == <<"a", ".">> \o ads_example_com

bads_example_com == <<"b">> \o ads_example_com

SINKHOLE_IP == <<0, 0, 0, 0>>

None == [wire |-> "None"]

Junk == [wire |-> "junk"]

Question(qname, qtype) == [qname |-> qname, qtype |-> qtype]

\* A well-formed query datagram as the codec packs it.
QueryDatagram(id, q) == [wire |-> "dns", id |-> id, q |-> q]

\* DNSRecord.parse(data): the request, or the codec's error.
Parse(d) ==
    IF d.wire = "dns"
    THEN [ok |-> TRUE, id |-> d.id, q |-> d.q]
    ELSE [ok |-> FALSE, exc |-> "DNSError"]

\* DNSRecord(DNSHeader(id, qr=1, aa=1, ra=1), q).add_answer(RR(...)).pack()
SinkholeReplyMutQType(request) ==
    [wire |-> "dns", id |-> request.id, qr |-> 1, aa |-> 1, ra |-> 1,
     rcode |-> 0, q |-> request.q,
     rr |-> << [rname |-> request.q.qname, rtype |-> request.q.qtype, rclass |-> 1,
                ttl |-> 60, rdata |-> SINKHOLE_IP] >>]

SinkholeReply(request) ==
    [wire |-> "dns", id |-> request.id, qr |-> 1, aa |-> 1, ra |-> 1,
     rcode |-> 0, q |-> request.q,
     rr |-> << [rname |-> request.q.qname, rtype |-> "A", rclass |-> 1,
                ttl |-> 60, rdata |-> SINKHOLE_IP] >>]

\* DNSRecord(DNSHeader(id, qr=1, ra=1, rcode=2), q).pack()
ServfailReplyMutNoRcode(request) ==
    [wire |-> "dns", id |-> request.id, qr |-> 1, aa |-> 0, ra |-> 1,
     rcode |-> 0, q |-> request.q, rr |-> << >>]

ServfailReply(request) ==
    [wire |-> "dns", id |-> request.id, qr |-> 1, aa |-> 0, ra |-> 1,
     rcode |-> 2, q |-> request.q, rr |-> << >>]

\* ------------------------------------------------------------ environment

\* Handles of the handle_query tasks, in the order the datagrams arrive.
Tasks == 1..MaxQueries

\* Client addresses (addr[0], the client_ip).
Addrs == {"10.0.0.1", "10.0.0.2"}

\* Datagrams a client sends: undecodable bytes, two queries the blocklist
\* matches (an entry and a subdomain of it) and one it does not match.
ClientDatagrams ==
    { Junk,
      QueryDatagram(1, Question(ads_example_com, "A")),
      QueryDatagram(2, Question(a_ads_example_com, "AAAA")),
      QueryDatagram(3, Question(bads_example_com, "MX")) }

\* Datagrams the upstream resolver sends back: opaque bytes.
UpstreamDatagrams == { [wire |-> "raw", tag |-> "u1"], [wire |-> "raw", tag |-> "u2"] }

\* What load_all_blocklists has merged into BLOCKED_DOMAINS before serving.
LoadedBlocklist == { ads_example_com }

\* Subclasses of Exception that the query path raises.  CancelledError is a
\* BaseException and is not among them.
ExceptionClasses == {"DNSError", "OSError", "TimeoutError", "Exception"}

NoFuture == [st |-> "none", val |-> None, exc |-> ""]

NoEvent == [kind |-> "none", val |-> None]

\* ----------------------------------------------------- upstream exchange

\* DnsClientProtocol.__init__: on_response = loop.create_future()
NewFuture == [st |-> "pending", val |-> None, exc |-> ""]

\* 'if not self.on_response.done()' of the three protocol callbacks.
NotDoneMutAlways(f) == TRUE

NotDone(f) == f.st = "pending"

\* on_response.set_result(data) behind the guard.
SetResult(f, d) ==
    IF NotDone(f) THEN [st |-> "result", val |-> d, exc |-> ""] ELSE f

\* on_response.set_exception(exc) behind the guard.
SetExceptionMutUnguarded(f, e) == [st |-> "exception", val |-> None, exc |-> e]

SetException(f, e) ==
    IF NotDone(f) THEN [st |-> "exception", val |-> None, exc |-> e] ELSE f

\* What 'await asyncio.wait_for(protocol.on_response, timeout=2)' gives once
\* the future is done: its result, its exception, or TimeoutError.
AwaitOutcome(f) ==
    CASE f.st = "result" -> [kind |-> "response", val |-> f.val, exc |-> ""]
      [] f.st = "exception" -> [kind |-> "exc", val |-> None, exc |-> f.exc]
      [] OTHER -> [kind |-> "exc", val |-> None, exc |-> "TimeoutError"]

\* The except clauses of forward_query: TimeoutError, then Exception.
ForwardCatchesMutTimeoutOnly(exc) == exc = "TimeoutError"

ForwardCatches(exc) == exc = "TimeoutError" \/ exc \in ExceptionClasses

\* How forward_query ends: returns the response, returns None, or raises.
forward_query_exit(out) ==
    IF out.kind = "response"
    THEN [raised |-> FALSE, val |-> out.val, exc |-> ""]
    ELSE IF ForwardCatches(out.exc)
         THEN [raised |-> FALSE, val |-> None, exc |-> ""]
         ELSE [raised |-> TRUE, val |-> None, exc |-> out.exc]

\* ---------------------------------------------------------- handle_query

\* 'except Exception as e' around the whole body of handle_query.
HandleCatchesMutOSErrorOnly(exc) == exc = "OSError"

HandleCatches(exc) == exc \in ExceptionClasses

\* The reply bytes chosen after forward_query returned, lines 172-179.
ResponseDataMutSharedFuture(request, val) ==
    IF val = None
    THEN ServfailReply(request)
    ELSE IF on_response[1].st = "result" THEN on_response[1].val ELSE val

ResponseData(request, val) ==
    IF val = None THEN ServfailReply(request) ELSE val

\* self.transport.sendto(response_data, addr) on the listening transport.
SendToMutDeferred(h, response_data) == sent

SendTo(h, response_data) ==
    Append(sent, [to |-> addr[h], data |-> response_data, task |-> h])

\* An exception reaches the except clause of handle_query: it is printed and
\* the task returns, or it leaves the task.
Raise(h, exc) ==
    /\ pc' = [pc EXCEPT ![h] = "done"]
    /\ escaped' = IF HandleCatches(exc) THEN escaped ELSE escaped \cup {h}
    /\ UNCHANGED sent

\* handle_query from the return of forward_query to its end.
AfterForward(h, fr) ==
    IF fr.raised
    THEN Raise(h, fr.exc)
    ELSE /\ sent' = SendTo(h, ResponseData(Parse(data[h]), fr.val))
         /\ pc' = [pc EXCEPT ![h] = "done"]
         /\ UNCHANGED escaped

\* DnsServerProtocol.datagram_received: create the task and return.
Server_datagram_received_MutSerial(d, a) ==
    /\ listening
    /\ ntasks < MaxQueries
    /\ \A h \in Tasks : pc[h] \in {"idle", "done"}
    /\ ntasks' = ntasks + 1
    /\ pc' = [pc EXCEPT ![ntasks + 1] = "start"]
    /\ data' = [data EXCEPT ![ntasks + 1] = d]
    /\ addr' = [addr EXCEPT ![ntasks + 1] = a]
    /\ UNCHANGED << BLOCKED_DOMAINS, listening, on_response, transport, up_sent,
                    sent, first_event, late_datagram, escaped, dbVars, pureVars,
                    mainVars, blmVars, launchVars >>

Server_datagram_received(d, a) ==
    /\ listening
    /\ ntasks < MaxQueries
    /\ ntasks' = ntasks + 1
    /\ pc' = [pc EXCEPT ![ntasks + 1] = "start"]
    /\ data' = [data EXCEPT ![ntasks + 1] = d]
    /\ addr' = [addr EXCEPT ![ntasks + 1] = a]
    /\ UNCHANGED << BLOCKED_DOMAINS, listening, on_response, transport, up_sent,
                    sent, first_event, late_datagram, escaped, dbVars, pureVars, mainVars, blmVars, launchVars >>

\* The blocking decision of handle_query, line 159.
DecideBlockedMutNever(request) == FALSE

DecideBlocked(request) == is_blocked(LabelStr(request.q.qname))

\* handle_query from its first line to its first await: parse, decide, and on
\* the blocked path build and send the sinkhole reply.
handle_query_start(h) ==
    /\ pc[h] = "start"
    /\ LET request == Parse(data[h])
       IN  IF ~request.ok
           THEN Raise(h, request.exc)
           ELSE IF DecideBlocked(request)
                THEN /\ sent' = SendTo(h, SinkholeReply(request))
                     /\ pc' = [pc EXCEPT ![h] = "done"]
                     /\ UNCHANGED escaped
                ELSE /\ pc' = [pc EXCEPT ![h] = "connecting"]
                     /\ UNCHANGED << sent, escaped >>
    /\ UNCHANGED << BLOCKED_DOMAINS, listening, ntasks, data, addr, on_response,
                    transport, up_sent, first_event, late_datagram, dbVars,
                    pureVars, mainVars, blmVars, launchVars >>

\* create_datagram_endpoint succeeds: DnsClientProtocol.__init__ and
\* connection_made run (the request is sent), then forward_query awaits
\* on_response under the timeout.
connection_made_MutSendTwice(h) ==
    /\ pc[h] = "connecting"
    /\ on_response' = [on_response EXCEPT ![h] = NewFuture]
    /\ transport' = [transport EXCEPT ![h] = "open"]
    /\ up_sent' = [up_sent EXCEPT ![h] = Append(Append(@, data[h]), data[h])]
    /\ pc' = [pc EXCEPT ![h] = "waiting"]
    /\ UNCHANGED << BLOCKED_DOMAINS, listening, ntasks, data, addr, sent,
                    first_event, late_datagram, escaped, dbVars, pureVars, mainVars, blmVars, launchVars >>

connection_made(h) ==
    /\ pc[h] = "connecting"
    /\ on_response' = [on_response EXCEPT ![h] = NewFuture]
    /\ transport' = [transport EXCEPT ![h] = "open"]
    /\ up_sent' = [up_sent EXCEPT ![h] = Append(@, data[h])]
    /\ pc' = [pc EXCEPT ![h] = "waiting"]
    /\ UNCHANGED << BLOCKED_DOMAINS, listening, ntasks, data, addr, sent,
                    first_event, late_datagram, escaped, dbVars, pureVars, mainVars, blmVars, launchVars >>

\* create_datagram_endpoint raises OSError: no transport, no send.
endpoint_failed(h) ==
    /\ pc[h] = "connecting"
    /\ first_event' = [first_event EXCEPT ![h] = [kind |-> "connect_failed", val |-> None]]
    /\ AfterForward(h, forward_query_exit([kind |-> "exc", val |-> None, exc |-> "OSError"]))
    /\ UNCHANGED << BLOCKED_DOMAINS, listening, ntasks, data, addr, on_response,
                    transport, up_sent, late_datagram, dbVars, pureVars, mainVars, blmVars, launchVars >>

\* History of the exchange: its first event, and a datagram after it.
NoteEvent(h, kind, val) ==
    /\ first_event' = [first_event EXCEPT ![h] =
            IF @.kind = "none" THEN [kind |-> kind, val |-> val] ELSE @]
    /\ late_datagram' = [late_datagram EXCEPT ![h] =
            @ \/ (kind = "datagram" /\ first_event[h].kind # "none")]

\* DnsClientProtocol.datagram_received(data, addr)
Client_datagram_received(h, d) ==
    /\ transport[h] = "open"
    /\ on_response' = [on_response EXCEPT ![h] = SetResult(@, d)]
    /\ NoteEvent(h, "datagram", d)
    /\ UNCHANGED << BLOCKED_DOMAINS, listening, ntasks, pc, data, addr, transport,
                    up_sent, sent, escaped, dbVars, pureVars, mainVars, blmVars, launchVars >>

\* DnsClientProtocol.error_received(exc)
Client_error_received(h) ==
    /\ transport[h] = "open"
    /\ on_response' = [on_response EXCEPT ![h] = SetException(@, "OSError")]
    /\ NoteEvent(h, "error", None)
    /\ UNCHANGED << BLOCKED_DOMAINS, listening, ntasks, pc, data, addr, transport,
                    up_sent, sent, escaped, dbVars, pureVars, mainVars, blmVars, launchVars >>

\* DnsClientProtocol.connection_lost(exc): the transport failed and is gone.
Client_connection_lost(h) ==
    /\ transport[h] = "open"
    /\ transport' = [transport EXCEPT ![h] = "closed"]
    /\ on_response' = [on_response EXCEPT ![h] = SetException(@, "Exception")]
    /\ NoteEvent(h, "lost", None)
    /\ UNCHANGED << BLOCKED_DOMAINS, listening, ntasks, pc, data, addr, up_sent,
                    sent, escaped, dbVars, pureVars, mainVars, blmVars, launchVars >>

\* The 2 s timer of wait_for fires while the future is pending: the future is
\* cancelled and the awaiting task will see TimeoutError.
wait_for_timeout_MutNoTimer(h) == FALSE /\ UNCHANGED vars

wait_for_timeout(h) ==
    /\ pc[h] = "waiting"
    /\ on_response[h].st = "pending"
    /\ on_response' = [on_response EXCEPT ![h] = [st |-> "cancelled", val |-> None, exc |-> ""]]
    /\ NoteEvent(h, "timeout", None)
    /\ UNCHANGED << BLOCKED_DOMAINS, listening, ntasks, pc, data, addr, transport,
                    up_sent, sent, escaped, dbVars, pureVars, mainVars, blmVars, launchVars >>

\* 'finally: transport.close()' of forward_query, on a transport that may
\* already be closed.
transport_closeMutLeak(t) == t

transport_close(t) == "closed"

\* The task wakes up with the future done: wait_for returns or raises, the
\* finally clause closes the transport, forward_query ends and handle_query
\* runs to its end.
handle_query_resume(h) ==
    /\ pc[h] = "waiting"
    /\ on_response[h].st # "pending"
    /\ transport' = [transport EXCEPT ![h] = transport_close(@)]
    /\ AfterForward(h, forward_query_exit(AwaitOutcome(on_response[h])))
    /\ UNCHANGED << BLOCKED_DOMAINS, listening, ntasks, data, addr, on_response,
                    up_sent, first_event, late_datagram, dbVars, pureVars, mainVars, blmVars, launchVars >>

\* ----------------------------------------------------- startup, shutdown

\* dns_server_async.BLOCKLIST_URLS: the AdAway list and the sbc.io list.
BLOCKLIST_URLS == {"adaway", "sbc"}

\* The text a source serves: one hosts-file line for a name of its own.
SourceText(url) ==
    IF url = "adaway"
    THEN << <<"1", "2", "7", ".", "0", ".", "0", ".", "1", " ">> \o ads_example_com >>
    ELSE << <<"0", ".", "0", ".", "0", ".", "0", " ">> \o bads_example_com >>

\* The names that load_blocklist never adds, line 56.
LocalNames ==
    { <<"l", "o", "c", "a", "l", "h", "o", "s", "t">>, <<"l", "o", "c", "a", "l">> }

\* The loop of load_blocklist over text.splitlines(), lines 46-57: of a line
\* that is not blank and not a comment and has two tokens or more, the second
\* token is added in lower case.
BlockedOf(text) ==
    { Lower(Split(line)[2]) :
        line \in { l \in { Strip(text[i]) : i \in DOMAIN text } :
                     l # << >> /\ l[1] # "#" /\ Len(Split(l)) >= 2 } } \ LocalNames

\* The domains a source yields when its download and parse succeed.
SourceDomains(url) == BlockedOf(SourceText(url))

\* How a download ends: status 200, another status, or an exception of
\* session.get / resp.text.
LoadExceptionClasses == {"ClientError"}

LoadOutcomes == {"ok", "http_error"} \cup LoadExceptionClasses

\* 'except Exception as e' of load_blocklist.
LoadCatchesMutNothing(exc) == FALSE

LoadCatches(exc) == exc \in LoadExceptionClasses

\* A load_blocklist coroutine that has not returned.
PendingResult == [state |-> "pending", blocked |-> {}, text |-> << >>]

\* What load_blocklist returns when the source serves text: the parsed set
\* on status 200, the empty set otherwise.  (The text is kept with it.)
LoadResult(text, outcome) ==
    [state |-> outcome,
     blocked |-> IF outcome = "ok" THEN BlockedOf(text) ELSE {},
     text |-> text]

\* The statements of start_dns_server, in order.
StartupOrderMutBindFirst ==
    << "create_datagram_endpoint", "load_all_blocklists", "sleep" >>

StartupOrder ==
    << "load_all_blocklists", "create_datagram_endpoint", "sleep" >>

\* The statement start_dns_server is at.
MainAt(stmt) == main_end = "running" /\ StartupOrder[main_pc] = stmt

\* 'results = await asyncio.gather(*tasks)' returns when every coroutine has.
GatherDoneMutFirstCompleted(res) ==
    \E url \in BLOCKLIST_URLS : res[url].state # "pending"

GatherDone(res) == \A url \in BLOCKLIST_URLS : res[url].state # "pending"

\* One load_blocklist coroutine runs to its return, or raises what its except
\* clause lets through: gather then raises in load_all_blocklists and
\* start_dns_server ends with the exception.
load_blocklist(url, outcome, text) ==
    /\ main_end = "running"
    /\ results[url].state = "pending"
    /\ results' = [results EXCEPT ![url] = LoadResult(text, outcome)]
    /\ main_end' = IF outcome \in {"ok", "http_error"} \/ LoadCatches(outcome)
                   THEN main_end
                   ELSE outcome
    /\ UNCHANGED << BLOCKED_DOMAINS, serverVars, dbVars, pureVars, main_pc, blmVars, launchVars >>

\* load_all_blocklists after gather: every result is merged into the global
\* set in one run of the loop, and start_dns_server moves on.
load_all_blocklists ==
    /\ MainAt("load_all_blocklists")
    /\ GatherDone(results)
    /\ BLOCKED_DOMAINS' =
           BLOCKED_DOMAINS \cup UNION { results[url].blocked : url \in BLOCKLIST_URLS }
    /\ main_pc' = main_pc + 1
    /\ UNCHANGED << serverVars, dbVars, pureVars, main_end, results, blmVars, launchVars >>

\* loop.create_datagram_endpoint binds the listening socket, or raises OSError
\* when it cannot (port taken, no permission).
create_datagram_endpoint(bound) ==
    /\ MainAt("create_datagram_endpoint")
    /\ IF bound
       THEN /\ listening' = TRUE
            /\ main_pc' = main_pc + 1
            /\ UNCHANGED main_end
       ELSE /\ main_end' = "OSError"
            /\ UNCHANGED << listening, main_pc >>
    /\ UNCHANGED << BLOCKED_DOMAINS, ntasks, pc, data, addr, on_response,
                    transport, up_sent, sent, first_event, late_datagram,
                    escaped, dbVars, pureVars, results, blmVars, launchVars >>

\* The process is stopped while it serves.  stop() of app.py sends SIGTERM,
\* for which no handler is installed: the process ends at once and the
\* kernel closes its sockets.  Ctrl-C ends the sleep of start_dns_server, its
\* finally clause closes the listening transport and asyncio.run cancels
\* every task that has not finished; a cancelled forward_query closes its
\* transport in its finally clause.  Either way no unfinished handler takes
\* another step: a task that was suspended in forward_query is cancelled, a
\* task that was created and not yet run never runs.
stop ==
    /\ MainAt("sleep")
    /\ listening
    /\ main_end' = "stopped"
    /\ listening' = FALSE
    /\ pc' = [h \in Tasks |->
                CASE pc[h] \in {"idle", "done"} -> pc[h]
                  [] pc[h] = "start" -> "never_ran"
                  [] OTHER -> "cancelled"]
    /\ transport' = [h \in Tasks |->
                IF transport[h] = "open" THEN transport_close(transport[h])
                ELSE transport[h]]
    /\ UNCHANGED << BLOCKED_DOMAINS, ntasks, data, addr, on_response, up_sent,
                    sent, first_event, late_datagram, escaped, dbVars, pureVars,
                    main_pc, results, blmVars, launchVars >>

\* start_dns_server is in its sleep loop: the AdAway list was loaded, the
\* sbc.io download was refused.
InitServing ==
    /\ main_pc = 3
    /\ main_end = "running"
    /\ results = [url \in BLOCKLIST_URLS |->
                    LoadResult(SourceText(url),
                               IF url = "adaway" THEN "ok" ELSE "http_error")]

\* ------------------------------------------------------------ BlmFilter

\* urlparse(url).netloc: a scheme is split off at the first colon when what
\* stands before it is a letter followed by scheme characters; the netloc is
\* what follows '//' up to the next '/', '?' or '#'.
Netloc(url) ==
    LET i == Find(url, <<":">>)
        has_scheme ==
            /\ i > 1
            /\ IsAlpha(url[1])
            /\ \A j \in 1..(i - 1) : IsSchemeChar(url[j])
        rest == IF has_scheme THEN SubSeq(url, i + 1, Len(url)) ELSE url
        body == SubSeq(rest, 3, Len(rest))
        delim == { j \in 1..Len(body) : body[j] \in {"/", "?", "#"} }
        end == IF delim = {} THEN Len(body) + 1 ELSE Min(delim)
    IN  IF StartsWith(rest, <<"/", "/">>)
        THEN SubSeq(body, 1, end - 1)
        ELSE << >>

\* The 'www.' step of normalize_url, lines 95-96: one prefix is removed.
StripWww(url) ==
    IF StartsWith(url, <<"w", "w", "w", ".">>)
    THEN SubSeq(url, 5, Len(url))
    ELSE url

\* BlmFilter.normalize_url
normalize_url(url) ==
    LET u1 == Strip(Lower(url))
        u2 == IF Find(u1, <<":", "/", "/">>) # 0 THEN Netloc(u1) ELSE u1
    IN  RStripSlashes(StripWww(u2))

\* re.match(r'^\d+\.\d+\.\d+\.\d+\s+', s): the index after the run of digits
\* that starts at i, or 0 when no digit stands at i.
AfterDigits(s, i) ==
    IF i <= Len(s) /\ IsDigit(s[i])
    THEN Min({ j \in (i + 1)..(Len(s) + 1) : j = Len(s) + 1 \/ ~IsDigit(s[j]) })
    ELSE 0

\* A dot stands at i and digits follow it: the index after them, else 0.
AfterDotDigits(s, i) ==
    IF i # 0 /\ i <= Len(s) /\ s[i] = "." THEN AfterDigits(s, i + 1) ELSE 0

MatchesHostsLine(s) ==
    LET e == AfterDotDigits(s, AfterDotDigits(s, AfterDotDigits(s, AfterDigits(s, 1))))
    IN  e # 0 /\ e <= Len(s) /\ IsSpace(s[e])

\* One line of the download, lines 131-143: the entry it holds, or nothing
\* for a blank line and a comment.
EntryOf(line) ==
    LET url_entry == Strip(line)
    IN  IF url_entry = << >> \/ url_entry[1] = "#"
        THEN [skip |-> TRUE, entry |-> << >>]
        ELSE IF MatchesHostsLine(url_entry)
             THEN [skip |-> FALSE, entry |-> Split(url_entry)[2]]
             ELSE IF \E i \in 1..Len(url_entry) : url_entry[i] = " "
                  THEN [skip |-> FALSE, entry |-> Split(url_entry)[1]]
                  ELSE [skip |-> FALSE, entry |-> url_entry]

\* The names the loop of load_urls_from_url passes to bloom.add, in order.
RECURSIVE NamesOf(_)
NamesOf(body) ==
    IF body = << >>
    THEN << >>
    ELSE LET e == EntryOf(Head(body))
             normalized_url == normalize_url(e.entry)
         IN  IF e.skip \/ normalized_url = << >>
             THEN NamesOf(Tail(body))
             ELSE << normalized_url >> \o NamesOf(Tail(body))

\* A number for each character, for the hash functions of the index.
CharCode(c) ==
    CASE c = "a" -> 1 [] c = "b" -> 2 [] c = "h" -> 3 [] c = "w" -> 4
      [] c = "x" -> 5 [] c = "." -> 6 [] c = "/" -> 7 [] c = ":" -> 8
      [] OTHER -> 9

\* The hash of a key for slice k of the bit array.
RECURSIVE HashSum(_, _)
HashSum(key, k) ==
    IF key = << >> THEN k
    ELSE CharCode(Head(key)) + (k + 1) * HashSum(Tail(key), k)

\* pybloom_live: the bits of a key, one in each slice.
BitsOf(key) ==
    { (k - 1) * BitsPerSlice + (HashSum(key, k) % BitsPerSlice) : k \in 1..NumSlices }

\* BlmFilter.bloom_filter before an index is built or loaded.
NoFilter == [kind |-> "None"]

\* An object that is not an index and has no len().
ForeignObject == [kind |-> "int"]

\* BlmFilter.error_rate, the default of __init__.
error_rate == "0.001"

\* Values of BlmFilter.expected_entries: the default, and a small one.
CapacityChoices == {600000, 1}

\* BloomFilter(capacity=..., error_rate=...), empty.
BloomFilter(capacity, rate) ==
    [kind |-> "BloomFilter", capacity |-> capacity, error_rate |-> rate,
     bits |-> {}, count |-> 0]

\* key in bloom
BloomContains(bloom, key) == BitsOf(key) \subseteq bloom.bits

\* bloom.add(key): the bits are set; a key whose bits are all set counts as
\* present already.
BloomAdd(bloom, key) ==
    IF BloomContains(bloom, key)
    THEN bloom
    ELSE [bloom EXCEPT !.bits = @ \cup BitsOf(key), !.count = @ + 1]

\* The loop of bloom.add calls; add raises IndexError once the index holds
\* more keys than its capacity.
RECURSIVE AddAll(_, _)
AddAll(bloom, names) ==
    IF names = << >>
    THEN [raised |-> FALSE, bloom |-> bloom]
    ELSE IF bloom.count > bloom.capacity
         THEN [raised |-> TRUE, bloom |-> bloom]
         ELSE AddAll(BloomAdd(bloom, Head(names)), Tail(names))

\* The file BLOOM_FILTER_PATH when it does not exist, and when its bytes are
\* not a pickle (truncated, overwritten).
Missing == [kind |-> "missing"]

Corrupt == [kind |-> "corrupt"]

\* A pickle of an object that is not an index.
ForeignPickle == [kind |-> "pickle", cls |-> "int"]

\* pickle.dump(self.bloom_filter, f): the bit array is written bit by bit.
PickleMutNoBits(bloom) ==
    [kind |-> "pickle", cls |-> "BloomFilter", capacity |-> bloom.capacity,
     error_rate |-> bloom.error_rate, count |-> bloom.count,
     bitarray |-> [i \in 1..(NumSlices * BitsPerSlice) |-> 0]]

Pickle(bloom) ==
    [kind |-> "pickle", cls |-> "BloomFilter", capacity |-> bloom.capacity,
     error_rate |-> bloom.error_rate, count |-> bloom.count,
     bitarray |-> [i \in 1..(NumSlices * BitsPerSlice) |->
                      IF (i - 1) \in bloom.bits THEN 1 ELSE 0]]

\* pickle.load(f) of a pickled index.
Unpickle(file) ==
    [kind |-> "BloomFilter", capacity |-> file.capacity,
     error_rate |-> file.error_rate,
     bits |-> { i - 1 : i \in { j \in DOMAIN file.bitarray : file.bitarray[j] = 1 } },
     count |-> file.count]

\* An index pickled by another BlmFilter, built with other parameters.
OtherSnapshot == Pickle(BloomAdd(BloomFilter(1, "0.01"), <<"x">>))

\* The return value of load_bloom_filter for a file that does not exist.
LoadMissingReturns == "False"

\* load_bloom_filter on a BlmFilter whose field is bloom: what it returns and
\* what the field is afterwards.  pickle.load raises on bytes that are not a
\* pickle; the result of pickle.load is assigned before len() is applied.
load_bloom_filter_on(bloom, file) ==
    CASE file.kind = "missing" ->
            [ret |-> LoadMissingReturns, bloom_filter |-> bloom]
      [] file.kind = "corrupt" ->
            [ret |-> "False", bloom_filter |-> bloom]
      [] file.kind = "pickle" /\ file.cls = "BloomFilter" ->
            [ret |-> "True", bloom_filter |-> Unpickle(file)]
      [] OTHER ->
            [ret |-> "False", bloom_filter |-> ForeignObject]

\* How a call of load_urls_from_url goes: the download raises, or it
\* succeeds and _save_bloom_filter writes the file, fails in open(), or fails
\* in pickle.dump.
DownloadOutcomes == {"RequestException", "ok", "open_failed", "dump_failed"}

\* _save_bloom_filter: the file after the call.  A failed open() leaves the
\* file alone; pickle.dump fails after open() has truncated it.
save_bloom_filter_on(bloom, file, outcome) ==
    CASE outcome = "ok" -> Pickle(bloom)
      [] outcome = "open_failed" -> file
      [] OTHER -> Corrupt

\* Lines of a blocklist download: a hosts-file line, a plain line and a line
\* with a tab after the name.
ExampleLines ==
    << <<"0", ".", "0", ".", "0", ".", "0", " ", "a", ".", "b">>,
       <<"b", ".", "a", ".">>,
       <<"a", "\t", "b">> >>

\* Downloads: at most MaxLines of the example lines, in their order.
Bodies ==
    { [k \in 1..Cardinality(S) |->
          ExampleLines[CHOOSE i \in S : Cardinality({ j \in S : j < i }) = k - 1]] :
      S \in { T \in SUBSET DOMAIN ExampleLines : Cardinality(T) <= MaxLines } }

\* No download yet.
NoResponse == [raised |-> FALSE, lines |-> << >>]

\* The response of requests.get as the loop saw it: the lines it delivered,
\* and whether it raised a RequestException.
Response(body, outcome) == [raised |-> outcome = "RequestException", lines |-> body]

\* Names passed to check_url.
CheckNames ==
    { <<"a", ".", "b">>,
      <<"a">>,
      <<"b", ".", "a", ".">>,
      <<"b", ".", "a">>,
      <<"b">> }

\* The key check_url looks up for a name, lines 219-222: one trailing dot is
\* removed and the rest is normalized.
LookupKey(url) ==
    normalize_url(IF Len(url) > 0 /\ url[Len(url)] = "."
                  THEN SubSeq(url, 1, Len(url) - 1)
                  ELSE url)

\* load_urls_from_url on a BlmFilter, from line 148 on: names are the entries
\* that the loop of lines 128-147 has added and built is the index after the
\* loop.  The result holds what the call returns (the first element of the
\* tuple), the field, the file and the history afterwards.
load_urls_from_url_onMutAssignFirst(bloom, file, sv, ins, names, built, outcome) ==
    IF outcome = "RequestException" \/ built.raised
    THEN [ret |-> "False", bloom_filter |-> built.bloom, snapshot |-> file,
          saved |-> sv, inserted |-> ins]
    ELSE [ret |-> "True", bloom_filter |-> built.bloom,
          snapshot |-> save_bloom_filter_on(built.bloom, file, outcome),
          saved |-> CASE outcome = "ok" -> built.bloom
                      [] outcome = "open_failed" -> sv
                      [] OTHER -> NoFilter,
          inserted |-> { names[i] : i \in DOMAIN names }]

load_urls_from_url_on(bloom, file, sv, ins, names, built, outcome) ==
    IF outcome = "RequestException" \/ built.raised
    THEN [ret |-> "False", bloom_filter |-> bloom, snapshot |-> file,
          saved |-> sv, inserted |-> ins]
    ELSE [ret |-> "True", bloom_filter |-> built.bloom,
          snapshot |-> save_bloom_filter_on(built.bloom, file, outcome),
          saved |-> CASE outcome = "ok" -> built.bloom
                      [] outcome = "open_failed" -> sv
                      [] OTHER -> NoFilter,
          inserted |-> { names[i] : i \in DOMAIN names }]

\* check_url on a BlmFilter whose field is bloom.  The membership test on an
\* object that is not a container raises TypeError.
check_url_on(bloom, url) ==
    IF bloom = NoFilter
    THEN "False"
    ELSE IF bloom = ForeignObject
         THEN "raised"
         ELSE IF BloomContains(bloom, LookupKey(url)) THEN "True" ELSE "False"

\* What blm_out holds before any call.  Of a call it holds the name, the
\* argument of check_url, the file that load_bloom_filter found, what the
\* download of the blocklist delivered, and the return value.
NoCall ==
    [op |-> "none", arg |-> << >>, file |-> Missing, download |-> NoResponse,
     ret |-> "none"]

\* BlmFilter(expected_entries=capacity)
new_BlmFilter(capacity) ==
    /\ expected_entries' = capacity
    /\ bloom_filter' = NoFilter
    /\ inserted' = {}
    /\ blm_out' = [op |-> "__init__", arg |-> << >>, file |-> Missing,
                   download |-> NoResponse, ret |-> "None"]
    /\ UNCHANGED << BLOCKED_DOMAINS, serverVars, dbVars, pureVars, mainVars, launchVars,
                    snapshot, saved, norm_calls >>

\* BlmFilter.load_urls_from_url, with the _save_bloom_filter call it ends on:
\* the download delivers the lines of body and the call goes as outcome
\* says; when the download raises, body holds the lines that came before.
load_urls_from_url(body) ==
    \E names \in { NamesOf(body) } :
    \E built \in { AddAll(BloomFilter(expected_entries, error_rate), names) } :
    \E outcome \in DownloadOutcomes :
    \E r \in { load_urls_from_url_on(bloom_filter, snapshot, saved, inserted,
                                     names, built, outcome) } :
        /\ bloom_filter' = r.bloom_filter
        /\ snapshot' = r.snapshot
        /\ saved' = r.saved
        /\ inserted' = r.inserted
        /\ blm_out' = [op |-> "load_urls_from_url", arg |-> << >>, file |-> Missing,
                       download |-> Response(body, outcome), ret |-> r.ret]
        /\ UNCHANGED << BLOCKED_DOMAINS, serverVars, dbVars, pureVars, mainVars, launchVars,
                        expected_entries, norm_calls >>

\* BlmFilter.load_bloom_filter
load_bloom_filter ==
    LET r == load_bloom_filter_on(bloom_filter, snapshot)
    IN  /\ bloom_filter' = r.bloom_filter
        /\ inserted' = IF r.bloom_filter = bloom_filter THEN inserted ELSE {}
        /\ blm_out' = [op |-> "load_bloom_filter", arg |-> << >>, file |-> snapshot,
                       download |-> NoResponse, ret |-> r.ret]
        /\ UNCHANGED << BLOCKED_DOMAINS, serverVars, dbVars, pureVars, mainVars, launchVars,
                        expected_entries, snapshot, saved, norm_calls >>

\* BlmFilter.check_url(url)
check_url(url) ==
    /\ blm_out' = [op |-> "check_url", arg |-> url, file |-> Missing,
                   download |-> NoResponse,
                   ret |-> check_url_on(bloom_filter, url)]
    /\ UNCHANGED << BLOCKED_DOMAINS, serverVars, dbVars, pureVars, mainVars, launchVars,
                    expected_entries, bloom_filter, snapshot, saved, inserted,
                    norm_calls >>

\* Another program writes or removes the file: /tmp is shared, and
\* filter.URLBlocker keeps its own index under the same path.
snapshot_replaced(file) ==
    /\ snapshot # file
    /\ snapshot' = file
    /\ saved' = NoFilter
    /\ UNCHANGED << BLOCKED_DOMAINS, serverVars, dbVars, pureVars, mainVars, launchVars,
                    expected_entries, bloom_filter, inserted, blm_out,
                    norm_calls >>

\* initialize_bloom(blocklist_url): a new BlmFilter takes the snapshot when
\* load_bloom_filter says it has one and downloads the blocklist otherwise;
\* None is returned when both fail.
initialize_bloom(body) ==
    \E capacity \in { 600000 } :
    \E l \in { load_bloom_filter_on(NoFilter, snapshot) } :
        /\ expected_entries' = capacity
        /\ IF l.ret = "True"
           THEN /\ body = << >>
                /\ bloom_filter' = l.bloom_filter
                /\ inserted' = {}
                /\ blm_out' = [op |-> "initialize_bloom", arg |-> << >>,
                               file |-> snapshot, download |-> NoResponse,
                               ret |-> "blocker"]
                /\ UNCHANGED << snapshot, saved >>
           ELSE \E names \in { NamesOf(body) } :
                \E built \in { AddAll(BloomFilter(capacity, error_rate), names) } :
                \E outcome \in DownloadOutcomes :
                \E r \in { load_urls_from_url_on(l.bloom_filter, snapshot, saved, {},
                                                 names, built, outcome) } :
                    /\ bloom_filter' = IF r.ret = "True" THEN r.bloom_filter ELSE NoFilter
                    /\ snapshot' = r.snapshot
                    /\ saved' = r.saved
                    /\ inserted' = r.inserted
                    /\ blm_out' = [op |-> "initialize_bloom", arg |-> << >>,
                                   file |-> snapshot,
                                   download |-> Response(body, outcome),
                                   ret |-> IF r.ret = "True" THEN "blocker" ELSE "None"]
        /\ UNCHANGED << BLOCKED_DOMAINS, serverVars, dbVars, pureVars, mainVars, launchVars,
                        norm_calls >>

\* One more call of normalize_url, on the result of the call before.
call_normalize_url ==
    /\ Len(norm_calls) \in 1..2
    /\ norm_calls' = Append(norm_calls, normalize_url(norm_calls[Len(norm_calls)]))
    /\ UNCHANGED << BLOCKED_DOMAINS, serverVars, dbVars, pureVars, mainVars, launchVars,
                    expected_entries, bloom_filter, snapshot, saved, inserted,
                    blm_out >>

\* A BlmFilter as BlmFilter() leaves it, and no snapshot file.
InitBlmFilter ==
    /\ expected_entries = 600000
    /\ bloom_filter = NoFilter
    /\ snapshot = Missing
    /\ saved = NoFilter
    /\ inserted = {}
    /\ blm_out = NoCall
    /\ norm_calls = << >>

\* ------------------------------------------------------- the launchers

\* PIDs the system gives to new processes.
Pids == {"101", "102", "103", "104"}

\* The services: the DNS server and the dashboard.
Services == {"dns", "dash"}

\* PID_FILE when it does not exist.
NoPidFile == [exists |-> FALSE, lines |-> << >>]

\* A service of main.py that has not been started.
NoDaemon == [pc |-> "none", pid |-> "", unlinked |-> FALSE]

\* No launcher has run: no PID file, no service process.
InitLauncher ==
    /\ pid_file = NoPidFile
    /\ running = {}
    /\ launch_out = [op |-> "none", code |-> "none"]
    /\ parent_pc = "idle"
    /\ daemon = [d \in Services |-> NoDaemon]
    /\ pid_lock = "free"

\* A service process ends by itself (the port is taken, the service fails).
service_exits(p) ==
    /\ p \in running
    /\ \A d \in Services : daemon[d].pid = p => daemon[d].pc = "serving"
    /\ running' = running \ {p}
    /\ daemon' = [d \in Services |->
                     IF daemon[d].pid = p THEN [daemon[d] EXCEPT !.pc = "exited"]
                     ELSE daemon[d]]
    /\ UNCHANGED << BLOCKED_DOMAINS, serverVars, dbVars, pureVars, mainVars, blmVars,
                    pid_file, launch_out, parent_pc, pid_lock >>

\* How a call of app.start goes when no PID file exists: both services are
\* spawned and the file is written, or the first Popen raises, or the second
\* one, or the open() of PID_FILE.
StartOutcomes == {"ok", "dns_failed", "dash_failed", "pidfile_failed"}

\* app.start(): exit code 1 when PID_FILE exists; else Popen, Popen, write
\* both PIDs; any exception is printed and the exit code is 1.
app_start(outcome) ==
    /\ IF pid_file.exists
       THEN /\ outcome = "ok"
            /\ launch_out' = [op |-> "start", code |-> "1"]
            /\ UNCHANGED << pid_file, running >>
       ELSE \E dns, dash \in Pids \ running :
                /\ dns # dash
                /\ running' = CASE outcome = "dns_failed" -> running
                                 [] outcome = "dash_failed" -> running \cup {dns}
                                 [] OTHER -> running \cup {dns, dash}
                /\ pid_file' = IF outcome = "ok"
                               THEN [exists |-> TRUE, lines |-> << dns, dash >>]
                               ELSE pid_file
                /\ launch_out' = [op |-> "start",
                                  code |-> IF outcome = "ok" THEN "0" ELSE "1"]
    /\ UNCHANGED << BLOCKED_DOMAINS, serverVars, dbVars, pureVars, mainVars, blmVars,
                    parent_pc, daemon, pid_lock >>

\* The PIDs of the lines of PID_FILE.
PidsOf(lines) == { lines[i] : i \in DOMAIN lines }

\* Daemons after SIGTERM has been sent to the PIDs of pids.
Terminated(pids) ==
    [d \in Services |->
        IF daemon[d].pid \in pids \cap running
        THEN [daemon[d] EXCEPT !.pc = "killed"]
        ELSE daemon[d]]

\* app.stop(): nothing without PID_FILE; else SIGTERM to every PID of the
\* file, a PID without a process is passed over, and the file is removed.
\* int('') of an empty file raises ValueError: exit code 1, the file stays.
app_stop ==
    /\ IF ~pid_file.exists
       THEN /\ launch_out' = [op |-> "stop", code |-> "0"]
            /\ UNCHANGED << pid_file, running, daemon >>
       ELSE IF pid_file.lines = << >>
            THEN /\ launch_out' = [op |-> "stop", code |-> "1"]
                 /\ UNCHANGED << pid_file, running, daemon >>
            ELSE /\ running' = running \ PidsOf(pid_file.lines)
                 /\ daemon' = Terminated(PidsOf(pid_file.lines))
                 /\ pid_file' = NoPidFile
                 /\ launch_out' = [op |-> "stop", code |-> "0"]
    /\ UNCHANGED << BLOCKED_DOMAINS, serverVars, dbVars, pureVars, mainVars, blmVars,
                    parent_pc, pid_lock >>

\* main.start_services up to the start of the processes: 'await init_db()',
\* then PID_FILE is opened for writing, which leaves it empty.  An error of
\* init_db is logged and raised again, and start_services ends with it.
start_services_begin(store_ok) ==
    /\ parent_pc = "idle"
    /\ IF store_ok
       THEN /\ table_exists' = TRUE
            /\ db_last' = [op |-> "init_db", ret |-> "None"]
            /\ pid_file' = [exists |-> TRUE, lines |-> << >>]
            /\ parent_pc' = "start_dns"
            /\ UNCHANGED error_log
       ELSE /\ error_log < MaxLogLines
            /\ error_log' = error_log + 1
            /\ db_last' = [op |-> "init_db", ret |-> "raised"]
            /\ parent_pc' = "raised"
            /\ UNCHANGED << table_exists, pid_file >>
    /\ UNCHANGED << BLOCKED_DOMAINS, serverVars, dns_requests, lq_outcome, pureVars,
                    mainVars, blmVars, running, launch_out, daemon, pid_lock >>

\* The service whose Process start_services starts at a place.
ServiceAt(place) == IF place = "start_dns" THEN "dns" ELSE "dash"

\* dns_process.start(), dash_process.start(): the child runs daemonize, whose
\* two forks leave a process in a new session that will run start_dns or
\* start_dash; the child itself returns and ends.
Process_start(p) ==
    /\ parent_pc \in {"start_dns", "start_dash"}
    /\ p \in Pids \ running
    /\ daemon' = [daemon EXCEPT ![ServiceAt(parent_pc)] =
                      [pc |-> "forked", pid |-> p, unlinked |-> FALSE]]
    /\ running' = running \cup {p}
    /\ parent_pc' = IF parent_pc = "start_dns" THEN "start_dash" ELSE "join"
    /\ UNCHANGED << BLOCKED_DOMAINS, serverVars, dbVars, pureVars, mainVars, blmVars,
                    pid_file, launch_out, pid_lock >>

\* dns_process.join(), dash_process.join() and the two print calls: the
\* processes joined are the children that returned from daemonize.
start_services_join ==
    /\ parent_pc = "join"
    /\ parent_pc' = "returned"
    /\ launch_out' = [op |-> "start_services", code |-> "0"]
    /\ UNCHANGED << BLOCKED_DOMAINS, serverVars, dbVars, pureVars, mainVars, blmVars,
                    pid_file, running, daemon, pid_lock >>

\* start_dns / start_dash: open(PID_FILE, "a"), which creates the file when
\* it is not there.
pid_open(d) ==
    /\ daemon[d].pc = "forked"
    /\ daemon' = [daemon EXCEPT ![d].pc = "opened"]
    /\ pid_file' = [pid_file EXCEPT !.exists = TRUE]
    /\ UNCHANGED << BLOCKED_DOMAINS, serverVars, dbVars, pureVars, mainVars, blmVars,
                    running, launch_out, parent_pc, pid_lock >>

\* fcntl.flock(f, fcntl.LOCK_EX): waits while the other process holds it.
pid_flock(d) ==
    /\ daemon[d].pc = "opened"
    /\ pid_lock = "free"
    /\ pid_lock' = d
    /\ daemon' = [daemon EXCEPT ![d].pc = "locked"]
    /\ UNCHANGED << BLOCKED_DOMAINS, serverVars, dbVars, pureVars, mainVars, blmVars,
                    pid_file, running, launch_out, parent_pc >>

\* f.write(f"{os.getpid()}\n"): the line goes into the buffer of f.
pid_write(d) ==
    /\ daemon[d].pc = "locked"
    /\ daemon' = [daemon EXCEPT ![d].pc = "buffered"]
    /\ UNCHANGED << BLOCKED_DOMAINS, serverVars, dbVars, pureVars, mainVars, blmVars,
                    pid_file, running, launch_out, parent_pc, pid_lock >>

\* fcntl.flock(f, fcntl.LOCK_UN)
pid_unlock(d) ==
    /\ daemon[d].pc = "buffered"
    /\ pid_lock' = "free"
    /\ daemon' = [daemon EXCEPT ![d].pc = "unlocked"]
    /\ UNCHANGED << BLOCKED_DOMAINS, serverVars, dbVars, pureVars, mainVars, blmVars,
                    pid_file, running, launch_out, parent_pc >>

\* The end of the with block: the buffer is flushed, one write in append
\* mode puts the line at the end of the file, and the service starts.  A
\* file removed since the open() receives nothing.
pid_close(d) ==
    /\ daemon[d].pc = "unlocked"
    /\ daemon' = [daemon EXCEPT ![d].pc = "serving"]
    /\ pid_file' = IF daemon[d].unlinked
                   THEN pid_file
                   ELSE [pid_file EXCEPT !.lines = Append(@, daemon[d].pid)]
    /\ UNCHANGED << BLOCKED_DOMAINS, serverVars, dbVars, pureVars, mainVars, blmVars,
                    running, launch_out, parent_pc, pid_lock >>

\* main.stop_services(): as app.stop, without the try: the ValueError of an
\* empty file leaves stop_services, and the file stays.  A process that has
\* the removed file open keeps writing to it.
stop_services ==
    /\ IF ~pid_file.exists
       THEN /\ launch_out' = [op |-> "stop_services", code |-> "0"]
            /\ UNCHANGED << pid_file, running, daemon >>
       ELSE IF pid_file.lines = << >>
            THEN /\ launch_out' = [op |-> "stop_services", code |-> "raised"]
                 /\ UNCHANGED << pid_file, running, daemon >>
            ELSE /\ running' = running \ PidsOf(pid_file.lines)
                 /\ daemon' = [d \in Services |->
                        IF daemon[d].pc \in {"opened", "locked", "buffered", "unlocked"}
                        THEN [daemon[d] EXCEPT !.unlinked = TRUE]
                        ELSE Terminated(PidsOf(pid_file.lines))[d]]
                 /\ pid_file' = NoPidFile
                 /\ launch_out' = [op |-> "stop_services", code |-> "0"]
    /\ UNCHANGED << BLOCKED_DOMAINS, serverVars, dbVars, pureVars, mainVars, blmVars,
                    parent_pc, pid_lock >>

\* ------------------------------------------------------ the DNS server

\* The state when start_dns_server has created the listening endpoint.
Init ==
    /\ BLOCKED_DOMAINS = LoadedBlocklist
    /\ listening = TRUE
    /\ ntasks = 0
    /\ pc = [h \in Tasks |-> "idle"]
    /\ data = [h \in Tasks |-> None]
    /\ addr = [h \in Tasks |-> ""]
    /\ on_response = [h \in Tasks |-> NoFuture]
    /\ transport = [h \in Tasks |-> "none"]
    /\ up_sent = [h \in Tasks |-> << >>]
    /\ sent = << >>
    /\ first_event = [h \in Tasks |-> NoEvent]
    /\ late_datagram = [h \in Tasks |-> FALSE]
    /\ escaped = {}
    /\ dns_requests = << >>
    /\ table_exists = FALSE
    /\ lq_outcome = "none"
    /\ db_last = [op |-> "none", ret |-> "none"]
    /\ error_log = 0
    /\ query_name = << >>
    /\ is_blocked_out = "none"
    /\ InitServing
    /\ InitBlmFilter
    /\ InitLauncher

Next ==
    \/ \E d \in ClientDatagrams, a \in Addrs : Server_datagram_received(d, a)
    \/ \E h \in Tasks : handle_query_start(h)
    \/ \E h \in Tasks : connection_made(h)
    \/ \E h \in Tasks : endpoint_failed(h)
    \/ \E h \in Tasks, d \in UpstreamDatagrams : Client_datagram_received(h, d)
    \/ \E h \in Tasks : Client_error_received(h)
    \/ \E h \in Tasks : Client_connection_lost(h)
    \/ \E h \in Tasks : wait_for_timeout(h)
    \/ \E h \in Tasks : handle_query_resume(h)

Spec == Init /\ [][Next]_vars

\* The liveness specification: the same actions under a smaller environment
\* (one client address, one upstream payload, the query that is forwarded),
\* so that the behaviours of three tasks can be searched.
LiveDatagrams ==
    { QueryDatagram(3, Question(bads_example_com, "MX")) }

LiveAddrs == {"10.0.0.1"}

LiveUpstreamDatagrams == { [wire |-> "raw", tag |-> "u1"] }

NextLive ==
    \/ \E d \in LiveDatagrams, a \in LiveAddrs : Server_datagram_received(d, a)
    \/ \E h \in Tasks : handle_query_start(h)
    \/ \E h \in Tasks : connection_made(h)
    \/ \E h \in Tasks : endpoint_failed(h)
    \/ \E h \in Tasks, d \in LiveUpstreamDatagrams : Client_datagram_received(h, d)
    \/ \E h \in Tasks : Client_error_received(h)
    \/ \E h \in Tasks : Client_connection_lost(h)
    \/ \E h \in Tasks : wait_for_timeout(h)
    \/ \E h \in Tasks : handle_query_resume(h)

\* One step of the task h itself: a resumption by the event loop, the end of
\* endpoint creation, or the timer of wait_for.
TaskStep(h) ==
    \/ handle_query_start(h)
    \/ connection_made(h)
    \/ endpoint_failed(h)
    \/ wait_for_timeout(h)
    \/ handle_query_resume(h)

\* The event loop does not stop while a task has a step to take: it runs ready
\* tasks and fires due timers.  Nothing obliges the upstream resolver to
\* answer, so no fairness is stated for the protocol callbacks.
Fairness == WF_vars(\E h \in Tasks : TaskStep(h))

FairSpec == Init /\ [][NextLive]_vars /\ Fairness

\* ------------------------------------------------------- the audit store

\* Domains that callers of log_query pass.
LoggedDomains == { ads_example_com, bads_example_com }

\* Arguments of the log_query calls: a client and a domain, with blocked and
\* success as 0 or 1; a query that was answered, and one whose forwarding
\* failed.
LoggedCalls ==
    { [client_ip |-> ip, domain |-> d,
       blocked |-> IF d = ads_example_com THEN 1 ELSE 0, success |-> 1] :
      ip \in Addrs, d \in LoggedDomains }
    \cup { [client_ip |-> "10.0.0.2", domain |-> bads_example_com,
            blocked |-> 0, success |-> 0] }

\* One row of dns_requests; id is the AUTOINCREMENT key.
Row(id, client_ip, domain, blocked, success) ==
    [id |-> id, client_ip |-> client_ip, domain |-> domain,
     blocked |-> blocked, success |-> success]

\* 'except aiosqlite.Error as e: logging.error(...); raise' of log_query.
LogQueryFailed ==
    /\ error_log' = error_log + 1
    /\ lq_outcome' = "raised"
    /\ db_last' = [op |-> "log_query", ret |-> "raised"]
    /\ UNCHANGED << dns_requests, table_exists >>

\* init_db(): CREATE TABLE IF NOT EXISTS and commit; an aiosqlite.Error is
\* logged and raised again.  store_ok is whether the store works this time.
init_db_MutRecreate(store_ok) ==
    /\ IF store_ok
       THEN /\ table_exists' = TRUE
            /\ dns_requests' = << >>
            /\ db_last' = [op |-> "init_db", ret |-> "None"]
            /\ UNCHANGED error_log
       ELSE /\ error_log < MaxLogLines
            /\ error_log' = error_log + 1
            /\ db_last' = [op |-> "init_db", ret |-> "raised"]
            /\ UNCHANGED << table_exists, dns_requests >>
    /\ UNCHANGED << lq_outcome, BLOCKED_DOMAINS, serverVars, pureVars, mainVars, blmVars, launchVars >>

init_db(store_ok) ==
    /\ IF store_ok
       THEN /\ table_exists' = TRUE
            /\ db_last' = [op |-> "init_db", ret |-> "None"]
            /\ UNCHANGED error_log
       ELSE /\ error_log < MaxLogLines
            /\ error_log' = error_log + 1
            /\ db_last' = [op |-> "init_db", ret |-> "raised"]
            /\ UNCHANGED table_exists
    /\ UNCHANGED << dns_requests, lq_outcome, BLOCKED_DOMAINS, serverVars, pureVars, mainVars, blmVars, launchVars >>

\* log_query(client_ip, domain, blocked, success): INSERT and commit.  The
\* INSERT fails when the store does not work or the table is missing.
log_query(client_ip, domain, blocked, success, store_ok) ==
    /\ IF store_ok /\ table_exists
       THEN /\ Len(dns_requests) < MaxRows
            /\ dns_requests' = Append(dns_requests,
                   Row(Len(dns_requests) + 1, client_ip, domain, blocked, success))
            /\ lq_outcome' = "returned"
            /\ db_last' = [op |-> "log_query", ret |-> "None"]
            /\ UNCHANGED << table_exists, error_log >>
       ELSE /\ error_log < MaxLogLines
            /\ LogQueryFailed
    /\ UNCHANGED << BLOCKED_DOMAINS, serverVars, pureVars, mainVars, blmVars, launchVars >>

\* The filters argument of fetch_logs: none, or a dictionary; the columns
\* 'client_ip', 'domain' and 'blocked' become conditions, other keys are
\* dropped (line 77).
NoFilters == [column |-> "none", value |-> << >>]

FilterChoices ==
    { NoFilters,
      [column |-> "domain", value |-> ads_example_com],
      [column |-> "timestamp", value |-> ads_example_com] }

\* The limit argument: None, or a number.
NoLimit == [given |-> FALSE, n |-> 0]

LimitChoices == { NoLimit, [given |-> TRUE, n |-> 1] }

\* The rows that the WHERE clause of lines 74-82 lets through.
Selected(filters) ==
    { i \in DOMAIN dns_requests :
          filters.column = "domain" => dns_requests[i].domain = filters.value }

\* ORDER BY timestamp DESC, line 85: later rows first.  CURRENT_TIMESTAMP
\* counts seconds, so rows written within one second come in any order.
Orderings(S) ==
    { f \in [1..Cardinality(S) -> S] : \A i, j \in DOMAIN f : i # j => f[i] # f[j] }

\* LIMIT ? OFFSET ?, lines 88-90: only when a limit is given.
Paginate(rows, limit, offset) ==
    IF ~limit.given
    THEN rows
    ELSE SubSeq(rows, offset + 1,
                IF offset + limit.n < Len(rows) THEN offset + limit.n ELSE Len(rows))

\* fetch_logs(limit, offset, filters): one SELECT; an aiosqlite.Error (the
\* store does not work, the table is missing) is logged and [] is returned.
fetch_logs(limit, offset, filters, store_ok) ==
    /\ IF store_ok /\ table_exists
       THEN /\ \E order \in Orderings(Selected(filters)) :
                   db_last' = [op |-> "fetch_logs",
                               ret |-> Paginate([k \in DOMAIN order |-> dns_requests[order[k]]],
                                                limit, offset)]
            /\ UNCHANGED error_log
       ELSE /\ error_log < MaxLogLines
            /\ error_log' = error_log + 1
            /\ db_last' = [op |-> "fetch_logs", ret |-> << >>]
    /\ UNCHANGED << dns_requests, table_exists, lq_outcome, BLOCKED_DOMAINS,
                    serverVars, pureVars, mainVars, blmVars, launchVars >>

NextDb ==
    \/ \E ok \in BOOLEAN : init_db(ok)
    \/ \E c \in LoggedCalls, ok \in BOOLEAN :
           log_query(c.client_ip, c.domain, c.blocked, c.success, ok)
    \/ \E limit \in LimitChoices, offset \in {0, 1}, filters \in FilterChoices, ok \in BOOLEAN :
           fetch_logs(limit, offset, filters, ok)

SpecDb == Init /\ [][NextDb]_vars

\* --------------------------------------------------- is_blocked on its own

NameChars == {"a", "A", "b", "."}

EntryChars == {"a", "."}

\* Strings over a set of characters, up to a length.
Strings(chars, n) == UNION { [1..k -> chars] : k \in 0..n }

\* A name as str(DNSLabel) prints it: labels are not empty, so no dot follows
\* a dot and only the root name starts with one.
WellFormedName(s) ==
    /\ \A i \in 1..(Len(s) - 1) : ~(s[i] = "." /\ s[i + 1] = ".")
    /\ (Len(s) > 1 => s[1] # ".")

ExampleNames ==
    { example_com, ads_example_com, a_ads_example_com, bads_example_com }

\* Query names passed to is_blocked, with and without the trailing dot.
QueryNames ==
    { s \in Strings(NameChars, MaxNameLen) : WellFormedName(s) }
        \cup ExampleNames \cup { LabelStr(n) : n \in ExampleNames }

\* Entries as load_blocklist stores them: a non-empty token, lower-cased.
Entries == Strings(EntryChars, MaxEntryLen) \ { << >> }

\* Blocked sets: at most two short entries, or the example entry.
BlockedSets ==
    { B \in SUBSET Entries : Cardinality(B) <= 2 } \cup { { ads_example_com } }

InitIsBlocked ==
    /\ BLOCKED_DOMAINS \in BlockedSets
    /\ query_name \in QueryNames
    /\ is_blocked_out = "none"
    /\ listening = TRUE
    /\ ntasks = 0
    /\ pc = [h \in Tasks |-> "idle"]
    /\ data = [h \in Tasks |-> None]
    /\ addr = [h \in Tasks |-> ""]
    /\ on_response = [h \in Tasks |-> NoFuture]
    /\ transport = [h \in Tasks |-> "none"]
    /\ up_sent = [h \in Tasks |-> << >>]
    /\ sent = << >>
    /\ first_event = [h \in Tasks |-> NoEvent]
    /\ late_datagram = [h \in Tasks |-> FALSE]
    /\ escaped = {}
    /\ dns_requests = << >>
    /\ table_exists = FALSE
    /\ lq_outcome = "none"
    /\ db_last = [op |-> "none", ret |-> "none"]
    /\ error_log = 0
    /\ InitServing
    /\ InitBlmFilter
    /\ InitLauncher

\* One call is_blocked(query_name).
call_is_blocked ==
    /\ is_blocked_out = "none"
    /\ is_blocked_out' = IF is_blocked(query_name) THEN "True" ELSE "False"
    /\ UNCHANGED << BLOCKED_DOMAINS, query_name, serverVars, dbVars, mainVars,
                    blmVars, launchVars >>

NextIsBlocked == call_is_blocked

SpecIsBlocked == InitIsBlocked /\ [][NextIsBlocked]_vars

\* ------------------------------------------------- startup and serving

\* No task, no row, no call: the process has just been started.
InitNoTasks ==
    /\ ntasks = 0
    /\ pc = [h \in Tasks |-> "idle"]
    /\ data = [h \in Tasks |-> None]
    /\ addr = [h \in Tasks |-> ""]
    /\ on_response = [h \in Tasks |-> NoFuture]
    /\ transport = [h \in Tasks |-> "none"]
    /\ up_sent = [h \in Tasks |-> << >>]
    /\ sent = << >>
    /\ first_event = [h \in Tasks |-> NoEvent]
    /\ late_datagram = [h \in Tasks |-> FALSE]
    /\ escaped = {}
    /\ dns_requests = << >>
    /\ table_exists = FALSE
    /\ lq_outcome = "none"
    /\ db_last = [op |-> "none", ret |-> "none"]
    /\ error_log = 0
    /\ query_name = << >>
    /\ is_blocked_out = "none"

\* asyncio.run(start_dns_server()) has just been called: the module has been
\* imported, BLOCKED_DOMAINS is the empty set of line 29.
InitStart ==
    /\ BLOCKED_DOMAINS = {}
    /\ listening = FALSE
    /\ main_pc = 1
    /\ main_end = "running"
    /\ results = [url \in BLOCKLIST_URLS |-> PendingResult]
    /\ InitNoTasks
    /\ InitBlmFilter
    /\ InitLauncher

\* Queries for a name of each source, from one client, with one upstream
\* payload.
StartDatagrams ==
    { QueryDatagram(1, Question(ads_example_com, "A")),
      QueryDatagram(3, Question(bads_example_com, "MX")) }

NextStart ==
    \/ \E url \in BLOCKLIST_URLS, outcome \in LoadOutcomes :
           load_blocklist(url, outcome, SourceText(url))
    \/ load_all_blocklists
    \/ \E bound \in BOOLEAN : create_datagram_endpoint(bound)
    \/ \E d \in StartDatagrams, a \in LiveAddrs : Server_datagram_received(d, a)
    \/ \E h \in Tasks : handle_query_start(h)
    \/ \E h \in Tasks : connection_made(h)
    \/ \E h \in Tasks : endpoint_failed(h)
    \/ \E h \in Tasks, d \in LiveUpstreamDatagrams : Client_datagram_received(h, d)
    \/ \E h \in Tasks : Client_error_received(h)
    \/ \E h \in Tasks : Client_connection_lost(h)
    \/ \E h \in Tasks : wait_for_timeout(h)
    \/ \E h \in Tasks : handle_query_resume(h)

SpecStart == InitStart /\ [][NextStart]_vars

\* ------------------------------------------------ load_blocklist on texts

\* Lines of a source: a hosts-file line, a plain domain line, a blank line
\* and a comment.
LoadLines ==
    { <<"0", ".", "0", ".", "0", ".", "0", " ", "A", ".", "b">>,
      <<"b", ".", "a">>,
      <<" ">>,
      <<"#", "a", " ", "b">> }

LoadTexts == UNION { [1..n -> LoadLines] : n \in 0..MaxLines }

NextLoad ==
    \/ \E url \in BLOCKLIST_URLS, outcome \in LoadOutcomes, text \in LoadTexts :
           load_blocklist(url, outcome, text)
    \/ load_all_blocklists

SpecLoad == InitStart /\ [][NextLoad]_vars

\* ------------------------------------ is_blocked on loaded blocklists

\* Texts of one line or two.
ShortTexts ==
    { << l >> : l \in LoadLines } \cup { << l, m >> : l, m \in LoadLines }

\* Names asked for once the blocklists are loaded: the name of the hosts-file
\* line in three spellings, a subdomain of it, its parent and another name.
AskedNames ==
    { <<"a", ".", "b">>,
      <<"A", ".", "B">>,
      <<"a", ".", "B", ".">>,
      <<"b", ".", "a", ".", "b">>,
      <<"b">>,
      <<"b", ".", "a">> }

\* is_blocked(name), called by a handler: the blocklists have been merged
\* by then.
is_blocked_call(name) ==
    /\ ~MainAt("load_all_blocklists")
    /\ query_name' = name
    /\ is_blocked_out' = IF is_blocked(name) THEN "True" ELSE "False"
    /\ UNCHANGED << BLOCKED_DOMAINS, serverVars, dbVars, mainVars, blmVars, launchVars >>

NextCase ==
    \/ \E url \in BLOCKLIST_URLS, outcome \in LoadOutcomes, text \in ShortTexts :
           load_blocklist(url, outcome, text)
    \/ load_all_blocklists
    \/ \E name \in AskedNames : is_blocked_call(name)

SpecCase == InitStart /\ [][NextCase]_vars

\* ------------------------------------------- the exchange after its close

\* DnsClientProtocol.connection_lost(None): the event loop calls it once the
\* transport that forward_query closed is gone.
connection_lost_closed(h) ==
    /\ transport[h] = "closed"
    /\ on_response' = [on_response EXCEPT ![h] = SetException(@, "Exception")]
    /\ UNCHANGED << BLOCKED_DOMAINS, listening, ntasks, pc, data, addr, transport,
                    up_sent, sent, first_event, late_datagram, escaped, dbVars,
                    pureVars, mainVars, blmVars, launchVars >>

NextExchange ==
    \/ Next
    \/ \E h \in Tasks : connection_lost_closed(h)

SpecExchange == Init /\ [][NextExchange]_vars

\* ------------------------------------------------- the launcher of app.py

NextApp ==
    \/ \E outcome \in StartOutcomes : app_start(outcome)
    \/ app_stop
    \/ \E p \in Pids : service_exits(p)

SpecApp == Init /\ [][NextApp]_vars

\* ------------------------------------------------ the launcher of main.py

NextMain ==
    \/ \E ok \in BOOLEAN : start_services_begin(ok)
    \/ \E p \in Pids : Process_start(p)
    \/ start_services_join
    \/ \E d \in Services : pid_open(d)
    \/ \E d \in Services : pid_flock(d)
    \/ \E d \in Services : pid_write(d)
    \/ \E d \in Services : pid_unlock(d)
    \/ \E d \in Services : pid_close(d)
    \/ stop_services
    \/ \E p \in Pids : service_exits(p)

SpecMain == Init /\ [][NextMain]_vars

\* ------------------------------------------------- serving and shutdown

NextStop ==
    \/ Next
    \/ stop

SpecStop == Init /\ [][NextStop]_vars

\* ------------------------------------------------ normalize_url on its own

\* Pieces that inputs of normalize_url are put together from.
NormPieces ==
    { <<"w", "w", "w", ".">>,
      <<"a">>,
      <<"A">>,
      <<".">>,
      <<"/">>,
      <<" ">>,
      <<"h", ":", "/", "/">> }

\* The pieces of a sequence, joined.
RECURSIVE Concat(_)
Concat(ps) == IF ps = << >> THEN << >> ELSE Head(ps) \o Concat(Tail(ps))

NormInputs ==
    { Concat(ps) : ps \in UNION { [1..n -> NormPieces] : n \in 0..MaxPieces } }

InitNormalize ==
    /\ norm_calls \in { << x >> : x \in NormInputs }
    /\ expected_entries = 600000
    /\ bloom_filter = NoFilter
    /\ snapshot = Missing
    /\ saved = NoFilter
    /\ inserted = {}
    /\ blm_out = NoCall
    /\ BLOCKED_DOMAINS = LoadedBlocklist
    /\ listening = TRUE
    /\ InitServing
    /\ InitNoTasks
    /\ InitLauncher

NextNormalize == call_normalize_url

SpecNormalize == InitNormalize /\ [][NextNormalize]_vars

\* -------------------------------------------------- BlmFilter on its own

\* Files that another program leaves under BLOOM_FILTER_PATH.
ReplacedSnapshots == { Missing, Corrupt, ForeignPickle, OtherSnapshot }

NextBlm ==
    \/ \E capacity \in CapacityChoices : new_BlmFilter(capacity)
    \/ \E body \in Bodies : load_urls_from_url(body)
    \/ load_bloom_filter
    \/ \E url \in CheckNames : check_url(url)
    \/ \E file \in ReplacedSnapshots : snapshot_replaced(file)
    \/ \E body \in Bodies : initialize_bloom(body)

SpecBlm == Init /\ [][NextBlm]_vars

\* ------------------------------------------------------------- the claims

\* The request of task h was decoded by DNSRecord.parse.
Decodable(h) == data[h].wire = "dns"

\* Positions in sent of the datagrams that task h sent.
RepliesOf(h) == { i \in DOMAIN sent : sent[i].task = h }

\* Task h has left the blocked path behind: its name matches the blocklist.
OnBlockedPath(h) ==
    Decodable(h) /\ is_blocked(LabelStr(data[h].q.qname))

\* The upstream exchange of task h did not produce a response.
ForwardFailedFirst(h) ==
    first_event[h].kind \in {"timeout", "error", "lost", "connect_failed"}

\* C1: a task never sends more replies than one for a decodable datagram and
\* none for an undecodable one, and a finished task has sent exactly that
\* many, on the blocked, forwarded and forward-failed paths, whatever the
\* other tasks do and whatever arrives after the timeout.
C1_ExactlyOneReply ==
    \A h \in Tasks :
        /\ Cardinality(RepliesOf(h)) <= (IF Decodable(h) THEN 1 ELSE 0)
        /\ pc[h] = "done" =>
               Cardinality(RepliesOf(h)) = (IF Decodable(h) THEN 1 ELSE 0)

\* A task timed out, an upstream datagram came afterwards, and it finished
\* with one reply, next to a finished task for undecodable bytes with none.
C1_Witness ==
    \E h, g \in Tasks :
        /\ pc[h] = "done" /\ first_event[h].kind = "timeout" /\ late_datagram[h]
        /\ Cardinality(RepliesOf(h)) = 1
        /\ pc[g] = "done" /\ ~Decodable(g) /\ RepliesOf(g) = {}

\* C2: a task whose query is_blocked reports as blocked never awaits the
\* forwarder: it opens no upstream transport, creates no exchange and sends
\* nothing to the upstream resolver.
C2_BlockedNeverForwarded ==
    \A h \in Tasks :
        OnBlockedPath(h) =>
            /\ pc[h] \in {"start", "done"}
            /\ transport[h] = "none"
            /\ on_response[h].st = "none"
            /\ up_sent[h] = << >>

\* A blocked query was answered while another query was being forwarded.
C2_Witness ==
    \E h, g \in Tasks :
        /\ OnBlockedPath(h) /\ pc[h] = "done" /\ RepliesOf(h) # {}
        /\ pc[g] = "waiting" /\ Len(up_sent[g]) = 1

\* C3: when the first event of a task's upstream exchange is a datagram, the
\* task's reply carries exactly that datagram.
C3_ReplyIsUpstreamBytes ==
    \A h \in Tasks :
        (pc[h] = "done" /\ first_event[h].kind = "datagram") =>
            /\ RepliesOf(h) # {}
            /\ \A i \in RepliesOf(h) : sent[i].data = first_event[h].val

\* A forwarded reply was relayed although a second, different datagram came
\* on the same exchange.
C3_Witness ==
    \E h \in Tasks :
        /\ pc[h] = "done" /\ first_event[h].kind = "datagram" /\ late_datagram[h]
        /\ \E i \in RepliesOf(h) : sent[i].data = first_event[h].val

\* C4: when forwarding fails (timeout, error_received, connection lost, no
\* endpoint) the task does not end with an exception and its reply has the
\* request's id and question, rcode 2 and no answer record.
C4_ServfailOnForwardFailure ==
    \A h \in Tasks :
        (pc[h] = "done" /\ ForwardFailedFirst(h)) =>
            /\ h \notin escaped
            /\ RepliesOf(h) # {}
            /\ \A i \in RepliesOf(h) :
                   /\ sent[i].data.wire = "dns"
                   /\ sent[i].data.id = data[h].id
                   /\ sent[i].data.q = data[h].q
                   /\ sent[i].data.qr = 1
                   /\ sent[i].data.rcode = 2
                   /\ sent[i].data.rr = << >>

\* One task got SERVFAIL after error_received and another after the endpoint
\* could not be opened.
C4_Witness ==
    \E h, g \in Tasks :
        /\ pc[h] = "done" /\ first_event[h].kind = "error"
        /\ \E i \in RepliesOf(h) : sent[i].data.rcode = 2
        /\ pc[g] = "done" /\ first_event[g].kind = "connect_failed"
        /\ \E i \in RepliesOf(g) : sent[i].data.rcode = 2

\* C5: every task created for a decodable datagram eventually sends its
\* reply, whatever the upstream resolver does.
C5_EveryQueryAnswered ==
    \A h \in Tasks :
        (pc[h] = "start" /\ Decodable(h)) ~> (RepliesOf(h) # {})

\* The upstream stayed silent, the timeout fired and the reply was sent.
C5_Witness ==
    \E h \in Tasks :
        /\ pc[h] = "done" /\ first_event[h].kind = "timeout" /\ ~late_datagram[h]
        /\ RepliesOf(h) # {}

\* C6: every reply to a blocked query has the request's id and question, is
\* an authoritative response and holds exactly one answer: the queried name,
\* type A, address 0.0.0.0, TTL 60; a finished blocked task has sent it.
C6_SinkholeReply ==
    \A h \in Tasks :
        OnBlockedPath(h) =>
            /\ pc[h] = "done" => RepliesOf(h) # {}
            /\ \A i \in RepliesOf(h) :
                   /\ sent[i].data.wire = "dns"
                   /\ sent[i].data.id = data[h].id
                   /\ sent[i].data.q = data[h].q
                   /\ sent[i].data.qr = 1
                   /\ sent[i].data.aa = 1
                   /\ sent[i].data.rcode = 0
                   /\ Len(sent[i].data.rr) = 1
                   /\ sent[i].data.rr[1].rname = data[h].q.qname
                   /\ sent[i].data.rr[1].rtype = "A"
                   /\ sent[i].data.rr[1].rdata = <<0, 0, 0, 0>>
                   /\ sent[i].data.rr[1].ttl = 60

\* A blocked AAAA query for a subdomain was answered with the A record.
C6_Witness ==
    \E h \in Tasks :
        /\ OnBlockedPath(h) /\ data[h].q.qtype = "AAAA" /\ pc[h] = "done"
        /\ \E i \in RepliesOf(h) : sent[i].data.rr[1].rtype = "A"

\* One trailing dot removed, as the claim words it.
StripOneDot(s) ==
    IF Len(s) > 0 /\ s[Len(s)] = "." THEN SubSeq(s, 1, Len(s) - 1) ELSE s

\* The name and the suffixes left by stripping leftmost labels one by one.
Ladder(qn) ==
    { SubSeq(qn, i, Len(qn)) :
          i \in {1} \cup { j + 1 : j \in { k \in 1..Len(qn) : qn[k] = "." } } }

\* C7: is_blocked(q) is True exactly when q, lower-cased and without its
\* trailing dot, or one of its label suffixes is in the blocked set; with
\* {ads.example.com} the names ads.example.com and a.ads.example.com are
\* blocked, example.com and bads.example.com are not.
C7_IsBlockedIsLadder ==
    is_blocked_out # "none" =>
        /\ (is_blocked_out = "True") <=>
               (Ladder(Lower(StripOneDot(query_name))) \cap BLOCKED_DOMAINS # {})
        /\ BLOCKED_DOMAINS = { ads_example_com } =>
               /\ StripOneDot(query_name) \in { ads_example_com, a_ads_example_com }
                      => is_blocked_out = "True"
               /\ StripOneDot(query_name) \in { example_com, bads_example_com }
                      => is_blocked_out = "False"

\* a.ads.example.com. was found blocked by the entry ads.example.com.
C7_Witness ==
    /\ BLOCKED_DOMAINS = { ads_example_com }
    /\ query_name = LabelStr(a_ads_example_com)
    /\ is_blocked_out = "True"

\* C8: no task ends with an exception, the listening transport stays open,
\* every delivered datagram has its task, the next datagram can always be
\* delivered, and a finished task for a decodable datagram has replied.
C8_FailuresContained ==
    /\ escaped = {}
    /\ listening
    /\ \A h \in Tasks : (h <= ntasks) <=> (pc[h] # "idle")
    /\ ntasks < MaxQueries =>
           ENABLED (\E d \in ClientDatagrams, a \in Addrs : Server_datagram_received(d, a))
    /\ \A h \in Tasks : (pc[h] = "done" /\ Decodable(h)) => RepliesOf(h) # {}

\* Undecodable bytes were dropped, and the datagram after them was answered.
C8_Witness ==
    \E g, h \in Tasks :
        /\ g < h
        /\ pc[g] = "done" /\ ~Decodable(g) /\ RepliesOf(g) = {}
        /\ pc[h] = "done" /\ Decodable(h) /\ RepliesOf(h) # {}

\* Rows of dns_requests that record the query of task h.
AuditRowsOf(h) ==
    { i \in DOMAIN dns_requests :
          /\ dns_requests[i].client_ip = addr[h]
          /\ dns_requests[i].domain = data[h].q.qname }

\* C9: a finished task for a decodable datagram has exactly one audit row,
\* with (blocked, success) = (1, 1) on the blocked path, (0, 1) when a
\* response was forwarded and (0, 0) when forwarding failed.
C9_OneAuditRecordPerQuery ==
    \A h \in Tasks :
        (pc[h] = "done" /\ Decodable(h)) =>
            /\ Cardinality(AuditRowsOf(h)) = 1
            /\ \A i \in AuditRowsOf(h) :
                   /\ dns_requests[i].blocked = (IF OnBlockedPath(h) THEN 1 ELSE 0)
                   /\ dns_requests[i].success = (IF ForwardFailedFirst(h) THEN 0 ELSE 1)

\* C10: an error of the audit store during log_query is logged and does not
\* reach the caller of log_query.
C10_AuditFailureContained == lq_outcome # "raised"

\* C11: a name that the last load_urls_from_url added to the index, given to
\* check_url in the form in which it was added, is reported present, at the
\* first check after the load and at every later one.
C11_NoFalseNegatives ==
    (blm_out.op = "check_url" /\ blm_out.arg \in inserted) => blm_out.ret = "True"

\* C12: a second call of normalize_url, on the result of the first, returns
\* that result unchanged.
C12_NormalizeIdempotent ==
    Len(norm_calls) = 3 => norm_calls[3] = norm_calls[2]

\* A forward_query call of task h is in flight.
ForwardInFlight(h) == pc[h] \in {"connecting", "waiting"}

\* The next datagram can be delivered to the server protocol.
CanDeliver ==
    ENABLED (\E d \in ClientDatagrams, a \in Addrs : Server_datagram_received(d, a))

\* C13: while the listening endpoint exists, and whenever a datagram has been
\* handed to a task, every load_blocklist coroutine has returned and what it
\* returned is in BLOCKED_DOMAINS.
C13_IndexReadyBeforeServing ==
    (listening \/ ntasks > 0) =>
        \A url \in BLOCKLIST_URLS :
            /\ results[url].state # "pending"
            /\ results[url].blocked \subseteq BLOCKED_DOMAINS

\* Both sources were loaded and merged, and a datagram was handed to a task.
C13_Witness ==
    /\ listening
    /\ ntasks > 0
    /\ BLOCKED_DOMAINS = { ads_example_com, bads_example_com }

\* C14: no step taken while the listening endpoint exists or a task exists
\* changes BLOCKED_DOMAINS, whatever the tasks are doing.
C14_BlockedSetFrozen ==
    [][(listening \/ ntasks > 0) => BLOCKED_DOMAINS' = BLOCKED_DOMAINS]_vars

\* Two tasks were served from the loaded set: one has sent the sinkhole reply
\* while the other is suspended in forward_query.
C14_Witness ==
    /\ listening
    /\ BLOCKED_DOMAINS = { ads_example_com }
    /\ \E h \in Tasks : pc[h] = "done" /\ OnBlockedPath(h) /\ RepliesOf(h) # {}
    /\ \E h \in Tasks : pc[h] = "waiting"

\* C15: while a task is suspended in forward_query, the next datagram can be
\* delivered and gets its own task, and every other task can take its next
\* step: start, open its upstream endpoint, or resume and reply.
C15_HandlersIndependent ==
    /\ ((\E h \in Tasks : pc[h] = "waiting") /\ ntasks < MaxQueries) => CanDeliver
    /\ \A g \in Tasks :
           (\E h \in Tasks \ {g} : pc[h] = "waiting") =>
               CASE pc[g] = "start" -> ENABLED handle_query_start(g)
                 [] pc[g] = "connecting" -> ENABLED connection_made(g)
                 [] pc[g] = "waiting" /\ on_response[g].st # "pending" ->
                        ENABLED handle_query_resume(g)
                 [] OTHER -> TRUE

\* The first task waited for upstream until the timeout; the task of a later
\* datagram replied before it.
C15_Witness ==
    /\ first_event[1].kind = "timeout"
    /\ \E i, j \in DOMAIN sent : i < j /\ sent[i].task > 1 /\ sent[j].task = 1

\* C16: an upstream transport is open only while the forward_query call that
\* opened it is awaiting the response, so there are never more open
\* transports than calls in flight and none when no call is in flight; this
\* holds after replies, timeouts, upstream errors, lost connections and the
\* cancellation of tasks at shutdown.
C16_UpstreamTransportsClosed ==
    LET open == { h \in Tasks : transport[h] = "open" }
        inflight == { h \in Tasks : ForwardInFlight(h) }
    IN  /\ \A h \in open : pc[h] = "waiting"
        /\ Cardinality(open) <= Cardinality(inflight)
        /\ inflight = {} => open = {}

\* One exchange ended with a reply and one task was cancelled while it
\* awaited upstream; both transports are closed.
C16_Witness ==
    /\ \E h \in Tasks :
           pc[h] = "done" /\ transport[h] = "closed" /\ first_event[h].kind = "datagram"
    /\ \E h \in Tasks :
           pc[h] = "cancelled" /\ transport[h] = "closed" /\ first_event[h].kind = "none"

\* C17: once the process has been stopped, no datagram can be delivered, no
\* transport is open, and every task that had parsed its query before the
\* stop has sent its reply.
C17_GracefulShutdown ==
    main_end = "stopped" =>
        /\ ~listening
        /\ ~CanDeliver
        /\ \A h \in Tasks : transport[h] # "open"
        /\ \A h \in Tasks :
               (Decodable(h) /\ pc[h] \in {"done", "cancelled"}) => RepliesOf(h) # {}

\* C18: after load_bloom_filter has read the file that the last
\* _save_bloom_filter wrote, the call has returned True and the index of the
\* BlmFilter has the capacity and the error rate of the index that was
\* saved and gives the same check_url answer for every name.
C18_SnapshotRoundTrip ==
    (blm_out.op = "load_bloom_filter" /\ saved # NoFilter) =>
        /\ blm_out.ret = "True"
        /\ bloom_filter.capacity = saved.capacity
        /\ bloom_filter.error_rate = saved.error_rate
        /\ \A url \in CheckNames :
               check_url_on(bloom_filter, url) = check_url_on(saved, url)

\* A BlmFilter made with another capacity has loaded a saved index that
\* holds a name: one name is reported present, another is not.
C18_Witness ==
    /\ blm_out.op = "load_bloom_filter"
    /\ saved # NoFilter
    /\ expected_entries # saved.capacity
    /\ \E url \in CheckNames : check_url_on(bloom_filter, url) = "True"
    /\ \E url \in CheckNames : check_url_on(bloom_filter, url) = "False"

\* The file is there and is not an index of the size this BlmFilter builds.
Incompatible(file, capacity) ==
    /\ file.kind # "missing"
    /\ ~(file.kind = "pickle" /\ file.cls = "BloomFilter" /\ file.capacity = capacity)

\* C19: load_bloom_filter on a corrupt or incompatible file returns neither
\* what it returns for a usable snapshot nor what it returns for a missing
\* one, and the BlmFilter is not left with an object that is not an index or
\* with an index of another capacity.
C19_CorruptSnapshotDistinct ==
    (blm_out.op = "load_bloom_filter" /\ Incompatible(blm_out.file, expected_entries)) =>
        /\ blm_out.ret # "True"
        /\ blm_out.ret # LoadMissingReturns
        /\ bloom_filter # ForeignObject
        /\ bloom_filter # NoFilter => bloom_filter.capacity = expected_entries

\* C20: no outcome of the downloads ends start_dns_server; after the
\* merge the names of every source that loaded are in BLOCKED_DOMAINS; the
\* listening endpoint can then be created, and once start_dns_server sleeps
\* the endpoint exists, datagrams can be delivered and finished tasks have
\* replied.
C20_BlocklistFailureTolerated ==
    /\ main_end \notin LoadExceptionClasses
    /\ (MainAt("load_all_blocklists") /\ GatherDone(results)) => ENABLED load_all_blocklists
    /\ MainAt("create_datagram_endpoint") => ENABLED create_datagram_endpoint(TRUE)
    /\ main_pc > 1 =>
           \A url \in BLOCKLIST_URLS :
               results[url].state = "ok" => SourceDomains(url) \subseteq BLOCKED_DOMAINS
    /\ MainAt("sleep") =>
           /\ listening
           /\ ntasks < MaxQueries =>
                  ENABLED (\E d \in StartDatagrams, a \in LiveAddrs : Server_datagram_received(d, a))
           /\ \A h \in Tasks : pc[h] = "done" => RepliesOf(h) # {}

\* The AdAway download raised, the sbc.io list was loaded, and the server has
\* answered a query for a name of that list with the sinkhole reply.
C20_Witness ==
    /\ listening
    /\ results["adaway"].state = "ClientError"
    /\ results["sbc"].state = "ok"
    /\ BLOCKED_DOMAINS = { bads_example_com }
    /\ \E h \in Tasks : pc[h] = "done" /\ OnBlockedPath(h) /\ RepliesOf(h) # {}

\* The lines of a text that are neither blank nor a comment, stripped.
ContentLines(text) ==
    { l \in { Strip(text[i]) : i \in DOMAIN text } : l # << >> /\ l[1] # "#" }

\* The domain of a blocklist line: the second token of a hosts-file line
\* '<ip> <domain>', the token of a plain single-domain line.
LineDomain(line) ==
    IF Len(Split(line)) >= 2 THEN Split(line)[2] ELSE Split(line)[1]

\* C21: when a source answers with status 200, what load_blocklist returns is
\* the set of the domains of its lines that are neither blank nor a comment,
\* hosts-file lines and plain single-domain lines alike; blank lines and
\* comments add nothing.
C21_BothFormatsLoaded ==
    \A url \in BLOCKLIST_URLS :
        results[url].state = "ok" =>
            results[url].blocked =
                { Lower(LineDomain(l)) : l \in ContentLines(results[url].text) }

\* A token is an IPv4 literal: four runs of digits with dots between them.
IsIPv4Literal(token) ==
    AfterDotDigits(token, AfterDotDigits(token, AfterDotDigits(token,
        AfterDigits(token, 1)))) = Len(token) + 1

\* The domain of a stripped blocklist line as the extraction rule gives it:
\* the second token after an IPv4 literal, else the first token when the line
\* holds whitespace, else the line.
ExtractedDomain(line) ==
    IF Len(Split(line)) >= 2 /\ IsIPv4Literal(Split(line)[1])
    THEN Split(line)[2]
    ELSE IF \E i \in 1..Len(line) : IsSpace(line[i])
         THEN Split(line)[1]
         ELSE line

\* C22: after a load_urls_from_url call that returned True, the names it
\* added are the normalized extracted domains of the downloaded lines that
\* are neither blank nor comments: second token after an IPv4 literal, first
\* token of any other line with a space or a tab, the whole line otherwise.
C22_DomainExtraction ==
    (blm_out.op = "load_urls_from_url" /\ blm_out.ret = "True") =>
        inserted =
            { normalize_url(ExtractedDomain(l)) :
                l \in ContentLines(blm_out.download.lines) } \ { << >> }

\* C23: the result of normalize_url has no surrounding whitespace, is in
\* lower case, holds no scheme separator, does not start with 'www.' and does
\* not end with '/' or '.'.
C23_NormalizeCanonical ==
    Len(norm_calls) >= 2 =>
        /\ Strip(norm_calls[2]) = norm_calls[2]
        /\ Lower(norm_calls[2]) = norm_calls[2]
        /\ Find(norm_calls[2], <<":", "/", "/">>) = 0
        /\ ~StartsWith(norm_calls[2], <<"w", "w", "w", ".">>)
        /\ norm_calls[2] # << >> =>
               norm_calls[2][Len(norm_calls[2])] \notin {"/", "."}

\* C24: a load_urls_from_url call whose download succeeded returns True, and
\* afterwards the index holds every entry of the download, however many
\* entries there are.
C24_EveryEntryInserted ==
    (blm_out.op = "load_urls_from_url" /\ ~blm_out.download.raised) =>
        /\ blm_out.ret = "True"
        /\ \A name \in { NamesOf(blm_out.download.lines)[i] :
                           i \in DOMAIN NamesOf(blm_out.download.lines) } :
               BloomContains(bloom_filter, name)

\* A step in which another program writes or removes the snapshot file.
FileStep == \E file \in ReplacedSnapshots : snapshot_replaced(file)

\* C30: a load_urls_from_url call that returns False, because the download
\* failed or because an insertion failed after some lines, leaves
\* bloom_filter as it was, check_url answers as before and the snapshot file
\* is not written; a call that returns True leaves the index built from the
\* lines of this download alone.
C30_RebuildAtomic ==
    [][(blm_out'.op = "load_urls_from_url" /\ ~FileStep) =>
          IF blm_out'.ret = "False"
          THEN /\ bloom_filter' = bloom_filter
               /\ snapshot' = snapshot
               /\ \A url \in CheckNames :
                      check_url_on(bloom_filter', url) = check_url_on(bloom_filter, url)
          ELSE bloom_filter' =
                   AddAll(BloomFilter(expected_entries, error_rate),
                          NamesOf(blm_out'.download.lines)).bloom]_vars

\* An insertion failed after some lines had been added to the new index,
\* while the BlmFilter holds an earlier index that knows a name.
C30_Witness ==
    /\ blm_out.op = "load_urls_from_url"
    /\ blm_out.ret = "False"
    /\ ~blm_out.download.raised
    /\ bloom_filter # NoFilter
    /\ \E url \in CheckNames : check_url_on(bloom_filter, url) = "True"

\* C25: every step of init_db, log_query and fetch_logs leaves the rows that
\* dns_requests held in place and unchanged; rows are only added at the end.
C25_AppendOnly ==
    [][/\ Len(dns_requests') >= Len(dns_requests)
       /\ SubSeq(dns_requests', 1, Len(dns_requests)) = dns_requests]_vars

\* init_db has run on a store that holds rows, and the rows are there.
C25_Witness ==
    /\ Len(dns_requests) >= 2
    /\ db_last.op = "init_db"
    /\ db_last.ret = "None"

\* C27 as stated: a finished task for a decodable datagram that is not
\* blocked has sent exactly one datagram upstream, the datagram it received.
C27_ExactlyOneUpstreamSend ==
    \A h \in Tasks :
        (pc[h] = "done" /\ Decodable(h) /\ ~OnBlockedPath(h)) =>
            up_sent[h] = << data[h] >>

\* C27, amended: a task never sends upstream anything but the datagram it
\* received and never sends it twice, whatever follows the send (response,
\* timeout, error, lost connection); a task for a decodable datagram that is
\* not blocked has sent it exactly once as soon as its upstream endpoint
\* exists, and has sent nothing when the endpoint could not be created.
C27_AtMostOnceUnmodified ==
    \A h \in Tasks :
        /\ up_sent[h] \in { << >>, << data[h] >> }
        /\ (Decodable(h) /\ ~OnBlockedPath(h) /\ pc[h] \in {"waiting", "done"}) =>
               up_sent[h] = (IF first_event[h].kind = "connect_failed"
                             THEN << >>
                             ELSE << data[h] >>)

\* One task's forwarding timed out after its one send; another task's
\* upstream endpoint could not be created and it sent nothing.
C27_Witness ==
    \E h, g \in Tasks :
        /\ pc[h] = "done" /\ first_event[h].kind = "timeout"
        /\ up_sent[h] = << data[h] >>
        /\ pc[g] = "done" /\ first_event[g].kind = "connect_failed"
        /\ up_sent[g] = << >>

\* C28: a handler is suspended only in forward_query (creating the upstream
\* endpoint, awaiting the response); the step in which the handler of a
\* blocked query starts is the step in which its reply is sent and the
\* handler ends, and no other handler moves in that step.
C28_BlockedPathUninterrupted ==
    [][\A h \in Tasks :
          /\ pc'[h] \in {"idle", "start", "connecting", "waiting", "done"}
          /\ (pc[h] = "start" /\ pc'[h] # "start" /\ OnBlockedPath(h)) =>
                 /\ pc'[h] = "done"
                 /\ Len(sent') = Len(sent) + 1
                 /\ SubSeq(sent', 1, Len(sent)) = sent
                 /\ sent'[Len(sent')].task = h
                 /\ \A g \in Tasks \ {h} : pc'[g] = pc[g]]_vars

\* The handler of a blocked query has run and replied while the handler of
\* an earlier query was suspended creating its upstream endpoint.
C28_Witness ==
    \E g, h \in Tasks :
        /\ g < h
        /\ pc[g] = "connecting"
        /\ OnBlockedPath(h) /\ pc[h] = "done" /\ RepliesOf(h) # {}

\* C29: every reply the listening transport sent goes to the address its
\* own request came from; a reply built by the server (sinkhole, SERVFAIL)
\* carries the id and the question of its own request; a forwarded reply is
\* the datagram that arrived on the upstream transport of its own request.
C29_NoCrossTalk ==
    \A i \in DOMAIN sent :
        LET h == sent[i].task
        IN  /\ sent[i].to = addr[h]
            /\ Decodable(h)
            /\ IF sent[i].data.wire = "dns"
               THEN /\ sent[i].data.id = Parse(data[h]).id
                    /\ sent[i].data.q = Parse(data[h]).q
               ELSE /\ first_event[h].kind = "datagram"
                    /\ sent[i].data = first_event[h].val

\* Two forwarded queries from different addresses overlapped: the later one
\* was answered first, and the upstream answered them with different bytes.
C29_Witness ==
    /\ Len(sent) = 2
    /\ sent[1].task = 2 /\ sent[2].task = 1
    /\ addr[1] # addr[2]
    /\ sent[1].data.wire = "raw" /\ sent[2].data.wire = "raw"
    /\ sent[1].data # sent[2].data

\* C31: a call of initialize_bloom that finds a snapshot it can load returns
\* a blocker with that index and downloads nothing; otherwise it downloads
\* and builds, and when it returns a blocker the snapshot file is one that
\* the next initialize_bloom loads; when it returns None no index is left.
C31_LoadElseBuildAndSave ==
    [][(blm_out'.op = "initialize_bloom" /\ ~FileStep) =>
          LET l == load_bloom_filter_on(NoFilter, snapshot)
          IN  IF l.ret = "True"
              THEN /\ blm_out'.ret = "blocker"
                   /\ blm_out'.download = NoResponse
                   /\ bloom_filter' = l.bloom_filter
                   /\ snapshot' = snapshot
              ELSE /\ blm_out'.ret = "blocker" =>
                          /\ bloom_filter' =
                                 AddAll(BloomFilter(expected_entries', error_rate),
                                        NamesOf(blm_out'.download.lines)).bloom
                          /\ load_bloom_filter_on(NoFilter, snapshot') =
                                 [ret |-> "True", bloom_filter |-> bloom_filter']
                   /\ blm_out'.ret = "None" => bloom_filter' = NoFilter]_vars

\* str.upper() on one character.
UpperChar(c) ==
    CASE c = "a" -> "A"
      [] c = "b" -> "B"
      [] c = "d" -> "D"
      [] c = "s" -> "S"
      [] OTHER -> c

\* A name with any of its letters changed in case.
CaseVariants(s) ==
    { [i \in 1..Len(s) |-> IF i \in S THEN UpperChar(s[i]) ELSE LowerChar(s[i])] :
      S \in SUBSET (1..Len(s)) }

\* A name as it is, with a trailing dot added and with one removed.
DotVariants(s) == { s, s \o <<".">>, StripOneDot(s) }

\* The domains load_blocklist took from the lines of a text, as written.
WrittenEntries(text) ==
    { Split(l)[2] : l \in { c \in ContentLines(text) : Len(Split(c)) >= 2 } }

C33_DecidedAtMostOnce ==
    [][\A h \in Tasks :
          /\ on_response[h].st \notin {"none", "pending"} =>
                 on_response'[h] = on_response[h]
          /\ on_response'[h] =
                 CASE first_event'[h].kind = "datagram" ->
                          [st |-> "result", val |-> first_event'[h].val, exc |-> ""]
                   [] first_event'[h].kind = "error" ->
                          [st |-> "exception", val |-> None, exc |-> "OSError"]
                   [] first_event'[h].kind = "lost" ->
                          [st |-> "exception", val |-> None, exc |-> "Exception"]
                   [] first_event'[h].kind = "timeout" ->
                          [st |-> "cancelled", val |-> None, exc |-> ""]
                   [] OTHER -> on_response'[h]]_vars

\* One exchange timed out and a datagram came on it afterwards; the transport
\* of another was closed after a datagram had decided it.
C33_Witness ==
    /\ \E h \in Tasks :
           /\ first_event[h].kind = "timeout" /\ late_datagram[h]
           /\ on_response[h].st = "cancelled"
    /\ \E h \in Tasks :
           /\ transport[h] = "closed" /\ pc[h] = "done"
           /\ on_response[h].st = "result"

\* A step of app.start.
StartStep == \E outcome \in StartOutcomes : app_start(outcome)

\* C34: app.start with a PID file in place spawns nothing and ends with exit
\* code 1; when app.start ends with exit code 1, every service process it
\* spawned is recorded in the PID file; app.stop leaves no process of a PID
\* of the file alive and removes the file, so that a start is not refused.
C34_PidFileConsistent ==
    [][/\ StartStep =>
              /\ pid_file.exists => (launch_out'.code = "1" /\ running' = running)
              /\ launch_out'.code = "1" =>
                     \A p \in running' \ running :
                         pid_file'.exists /\ p \in PidsOf(pid_file'.lines)
              /\ launch_out'.code = "0" =>
                     /\ pid_file'.exists
                     /\ PidsOf(pid_file'.lines) = running' \ running
       /\ (app_stop /\ pid_file.exists) =>
              /\ running' \cap PidsOf(pid_file.lines) = {}
              /\ ~pid_file'.exists]_vars

\* C35: once start_services has returned, and until stop_services is
\* called, the PID file holds exactly two lines, the PID of the DNS daemon
\* and the PID of the dashboard daemon; a stop_services that follows leaves
\* neither daemon alive.
C35_BothPidsWritten ==
    /\ (parent_pc = "returned" /\ launch_out.op = "start_services") =>
           /\ pid_file.exists
           /\ Len(pid_file.lines) = 2
           /\ PidsOf(pid_file.lines) = { daemon[d].pid : d \in Services }
    /\ (parent_pc = "returned" /\ launch_out.op = "stop_services") =>
           /\ launch_out.code = "0"
           /\ \A d \in Services : daemon[d].pid \notin running

====
